---- MODULE Spec2Model ----
(***************************************************************************)
(* Verification model of content-sdk-go: the GraphQL transport client      *)
(* (graphql/client.go), the middleware composer (middleware/middleware.go),*)
(* the multisite middleware (middleware/multisite.go), the locale          *)
(* middleware (middleware/locale.go), the site resolver (site/resolver.go),*)
(* the redirect rules (site/redirects.go, middleware/redirects.go), the    *)
(* editing security gate (EditingSecurityMiddleware), the path codec and   *)
(* GetPage of the client facade (client/sitecoreClient.go), the            *)
(* healthcheck gate (middleware/healthcheck.go), the catch-all handler     *)
(* (handlers/catchall.go) and the Echo adapters                            *)
(* (middleware/adapter_echo.go).                                           *)
(*                                                                         *)
(* Strings whose characters the code inspects (paths, host names, site     *)
(* names, locales) are sequences of one-character strings, so that Split,  *)
(* Trim, ToLower, HasPrefix and concatenation are computed, not assumed.   *)
(***************************************************************************)
EXTENDS Integers, Sequences, FiniteSets, TLC

VARIABLES
    \* ---- graphql.ClientImpl.Request: one call ----
    gq_retries,      \* c.config.Retries
    gq_timeout,      \* c.config.Timeout (0 = none)
    gq_callerDl,     \* the caller's ctx already carries a deadline
    gq_pc,           \* "idle" | "call" | "inflight" | "sleep" | "done"
    gq_attempt,      \* the loop variable `attempt`
    gq_outcomes,     \* kinds of the doRequest calls made so far, in order
    gq_ctxAtCall,    \* ctx.Err() as it was when each doRequest call started
    gq_resp,         \* the response the last doRequest call saw
    gq_ctxErr,       \* ctx.Err(): "none" | "canceled" | "deadline"
    gq_timer,        \* the time.After channel of the current backoff is ready
    gq_doneAt,       \* where the call was when ctx became done: [pc, n attempts]
    gq_lastErr,      \* lastErr
    gq_data,         \* returned data
    gq_err,          \* returned error
    gq_endpoint,     \* c.endpoint
    gq_apiKey,       \* c.apiKey ("" = none)
    gq_headers,      \* c.config.Headers: custom [name, value] pairs
    gq_sent,         \* req.Header of each doRequest call, in order
    gq_retryDelay,   \* c.config.RetryDelay: an int64 of nanoseconds, as its set bits
    gq_waits,        \* the delay given to time.After before each retry, in order
    \* ---- middleware.Chain(...).Handle(ctx, next): one call ----
    ch_mws,          \* the middlewares argument: ids in list order
    ch_calls,        \* for each middleware id: does its Handle call next
    ch_handler,      \* the handler about to be called (its closure chain)
    ch_trace,        \* ids of the middleware / terminal handler invoked, in order
    ch_pc,           \* "idle" | "running" | "returned"
    \* ---- one HTTP request going through the site / locale middleware ----
    ms_config,       \* MultisiteConfig: [enabled, useCookie, sites, defaultSite]
    lc_config,       \* LocaleConfig: [defaultLanguage, supported, useAcceptLanguage]
    rq_path,         \* the URL path the request arrived with
    rq_query,        \* URL query: parameter name -> value ("" when absent)
    rq_cookies,      \* request cookies: cookie name -> [present, value]
    rq_headers,      \* request headers and Host: name -> value
    cx_path,         \* Request().URL.Path, what ctx.Path() returns
    cx_bag,          \* the context bag: key -> value, Null when not set
    cx_setCookies,   \* cookies written to the response, in order
    cx_chain,        \* the handlers still to run: the middleware, then "terminal"
    \* ---- one RedirectsMiddleware instance serving requests one after another ----
    rd_rules,        \* the rule list FetchRedirects returns when it succeeds
    rd_redirects,    \* m.redirects: [isNil, list]
    rd_fetches,      \* sites of the FetchRedirects calls made so far, in order
    rd_failed,       \* some loadRedirects call of this instance has failed
    rd_handled,      \* requests this instance has been given
    rd_resp,         \* response written by the middleware: [status, location]
    rd_match,        \* the GetRedirect call of this request: [looked, found, rule]
    \* ---- one request to the editing security gate ----
    es_config,       \* EditingSecurityConfig: [secret, allowedOrigins, skip]
    es_req,          \* the request: [method, origin, secret]
    es_resp,         \* the response: [status, body, headers]
    es_pc,           \* "arrived" | "handler" (next was called) | "answered"
    \* ---- client path codec: one path taken through encoders and decoders ----
    pc_path,         \* the current path string
    pc_log,          \* the calls made so far: [op, arg, in, out, id]
    \* ---- the site resolver, the healthcheck gate and the catch-all handler ----
    sr_log,          \* GetByName calls made so far: [name, site, err]
    hc_config,       \* HealthcheckConfig after construction: [path, response]
    cx_resp,         \* the response written through the context: [status, body]
    ca_layout,       \* what FetchLayoutData gives: "error" | "noRoute" | "route"
    ca_fetch,        \* arguments of the FetchLayoutData calls: [path, site, locale]
    ca_err,          \* the error GetPage returned
    \* ---- requests handled concurrently by one RedirectsMiddleware ----
    rc_req,          \* the requests: [site, path] of each
    rc_mem,          \* the words of the slice m.redirects: [ptr, len]; ptr 0 is
                     \* nil, ptr i the array fetched for request i
    rc_pc,           \* per request: where its Handle goroutine is
    rc_got,          \* per request: what its FetchRedirects call returned: [ok, list]
    rc_out           \* per request: what its Handle did: [kind, read, target], kind
                     \* "loadFailed" | "next" | "redirect" | "fault", read the list
                     \* GetRedirect was given
VARIABLES
    \* ---- requests through middleware wrapped with AdaptMiddlewareToEcho ----
    ec_reqs,         \* number of requests Echo has dispatched so far
    ec_store,        \* the store of the request's echo.Context: key -> value
    ec_urlPath,      \* Request().URL.Path of the request
    ec_values,       \* the values map of each EchoContext built for the request
    ec_run,          \* the wrapper whose code runs (0: no request in progress)
    ec_log           \* the context operations of the request: [who, op, key, val]

gqVars == <<gq_retries, gq_timeout, gq_callerDl, gq_pc, gq_attempt, gq_outcomes,
            gq_ctxAtCall, gq_resp, gq_ctxErr, gq_timer, gq_doneAt, gq_lastErr, gq_data,
            gq_err, gq_endpoint, gq_apiKey, gq_headers, gq_sent, gq_retryDelay,
            gq_waits>>
ecVars == <<ec_reqs, ec_store, ec_urlPath, ec_values, ec_run, ec_log>>
chVars == <<ch_mws, ch_calls, ch_handler, ch_trace, ch_pc, ecVars>>
rqVars == <<ms_config, lc_config, rq_path, rq_query, rq_cookies, rq_headers, cx_path, cx_bag,
            cx_setCookies, cx_chain>>
rdVars == <<rd_rules, rd_redirects, rd_fetches, rd_failed, rd_handled, rd_resp, rd_match>>
esVars == <<es_config, es_req, es_resp, es_pc>>
pcVars == <<pc_path, pc_log>>
rcVars == <<rc_req, rc_mem, rc_pc, rc_got, rc_out>>
hnVars == <<sr_log, hc_config, cx_resp, ca_layout, ca_fetch, ca_err, rcVars>>
exVars == <<rdVars, esVars, pcVars, hnVars>>
vars == <<gqVars, chVars, rqVars, exVars>>

(***************************************************************************)
(* Bounds                                                                  *)
(***************************************************************************)
MaxRetries == 3
MaxChain == 3
MaxEcRequests == 2
MaxEcOps == 3

(***************************************************************************)
(* graphql/client.go                                                       *)
(***************************************************************************)
Nil == "nil"
NoErr == [type |-> "nil"]

\* The ways one doRequest call can end, by the statement of doRequest that
\* decides it.  "envelope" is a 2xx response with a decodable body.
WrappedKinds == {"build", "transport", "read", "status", "unmarshal"}
IsValidationClass(e) == e = "valid"
Responses ==
    [kind : WrappedKinds, data : {Nil}, errors : {<<>>}]
    \cup [kind : {"envelope"}, data : {Nil, "d1", "d2"}, errors : {<<>>, <<"exec">>, <<"valid">>, <<"exec", "valid">>,
                    <<"valid", "exec">>}]

\* doRequest with the data of a successful envelope dropped.
doRequest_DropData(resp) ==
    IF resp.kind \in WrappedKinds
    THEN [data |-> Nil, err |-> [type |-> "wrapped", cause |-> resp.kind]]
    ELSE IF Len(resp.errors) > 0
         THEN [data |-> Nil, err |-> [type |-> "GraphQLError", id |-> resp.errors[1]]]
         ELSE [data |-> Nil, err |-> NoErr]

\* doRequest returning the last listed error instead of the first.
doRequest_LastError(resp) ==
    IF resp.kind \in WrappedKinds
    THEN [data |-> Nil, err |-> [type |-> "wrapped", cause |-> resp.kind]]
    ELSE IF Len(resp.errors) > 0
         THEN [data |-> Nil,
               err |-> [type |-> "GraphQLError", id |-> resp.errors[Len(resp.errors)]]]
         ELSE [data |-> resp.data, err |-> NoErr]

\* doRequest: every failure before the envelope is a fmt.Errorf error; an
\* envelope with a non-empty errors array returns (nil, &result.Errors[0]);
\* otherwise (result.Data, nil).
doRequest(resp) ==
    IF resp.kind \in WrappedKinds
    THEN [data |-> Nil, err |-> [type |-> "wrapped", cause |-> resp.kind]]
    ELSE IF Len(resp.errors) > 0
         THEN [data |-> Nil, err |-> [type |-> "GraphQLError", id |-> resp.errors[1]]]
         ELSE [data |-> resp.data, err |-> NoErr]

\* The class of an attempt, kept in gq_outcomes.
OutcomeOf(resp) ==
    IF resp.kind \in WrappedKinds THEN resp.kind
    ELSE IF Len(resp.errors) = 0 THEN "ok"
    ELSE IF IsValidationClass(resp.errors[1]) THEN "gqlValidation"
    ELSE "gql"

\* isEdgeAPI: strings.Contains(endpoint, "sitecoreContextId=")
isEdgeAPI(endpoint) ==
    LET sub == <<"s", "i", "t", "e", "c", "o", "r", "e", "C", "o", "n", "t", "e", "x", "t", "I", "d", "=">> IN
    \E i \in 0..(Len(endpoint) - Len(sub)) : SubSeq(endpoint, i + 1, i + Len(sub)) = sub

\* The header block of doRequest with the edge test left out.
RequestHeaders_KeyOnEdge(endpoint, apiKey, custom) ==
    LET h0 == [n \in {"Content-Type", "sc_apikey", "X-Trace"} |->
                  IF n = "Content-Type" THEN "application/json" ELSE "<unset>"]
        h1 == IF apiKey # "" THEN [h0 EXCEPT !["sc_apikey"] = apiKey] ELSE h0
        Apply[i \in 0..Len(custom)] ==
            IF i = 0 THEN h1
            ELSE [Apply[i - 1] EXCEPT ![custom[i].name] = custom[i].value] IN
    Apply[Len(custom)]

\* Lines 168-180 of doRequest: req.Header after Content-Type, the sc_apikey
\* header of a non-edge endpoint with a key, and then every custom header of
\* c.config.Headers, each by req.Header.Set.  "<unset>" is an absent header.
RequestHeaders(endpoint, apiKey, custom) ==
    LET h0 == [n \in {"Content-Type", "sc_apikey", "X-Trace"} |->
                  IF n = "Content-Type" THEN "application/json" ELSE "<unset>"]
        h1 == IF apiKey # "" /\ ~isEdgeAPI(endpoint)
              THEN [h0 EXCEPT !["sc_apikey"] = apiKey] ELSE h0
        Apply[i \in 0..Len(custom)] ==
            IF i = 0 THEN h1
            ELSE [Apply[i - 1] EXCEPT ![custom[i].name] = custom[i].value] IN
    Apply[Len(custom)]

\* err.(*models.ValidationError)
IsValidationError(err) == err.type = "ValidationError"

CtxError(e) == [type |-> "ctx", which |-> e]
FinalError(retries, last) == [type |-> "failedAfter", retries |-> retries, cause |-> last]

NotDone == [pc |-> "never", n |-> 0]

\* time.Duration is an int64 count of nanoseconds in two's complement.  The
\* model keeps the full width: a value is the set of its set bit positions,
\* bit DurationBits - 1 being the sign.
DurationBits == 64
\* DefaultClientConfig: RetryDelay = 1 * time.Second = 1000000000 ns, in binary
\* 111011100110101100101000000000.
DefaultRetryDelay == {9, 11, 14, 15, 17, 19, 20, 23, 24, 25, 27, 28, 29}

\* d * 2^k in int64 arithmetic: the bits shifted out of the word are lost.
ShiftLeft(d, k) == {b + k : b \in {c \in d : c + k < DurationBits}}

\* Line 114: time.Duration(math.Pow(2, float64(attempt-1))) * RetryDelay.
\* For attempt - 1 < DurationBits - 1 the power is exact in float64 and in
\* int64, and the product is the wrapping int64 product.
BackoffDelay(attempt, retryDelay) == ShiftLeft(retryDelay, attempt - 1)

GqInit ==
    /\ gq_retries \in 0..MaxRetries
    /\ gq_timeout \in {0, 1}
    /\ gq_callerDl \in BOOLEAN
    /\ gq_pc = "idle"
    /\ gq_attempt = 0
    /\ gq_outcomes = <<>>
    /\ gq_ctxAtCall = <<>>
    /\ gq_resp = [kind |-> "none", data |-> Nil, errors |-> <<>>]
    /\ gq_ctxErr = "none"
    /\ gq_timer = FALSE
    /\ gq_doneAt = NotDone
    /\ gq_lastErr = NoErr
    /\ gq_data = Nil
    /\ gq_err = NoErr
    /\ gq_endpoint = <<"h", "/", "g">>
    /\ gq_apiKey = "k"
    /\ gq_headers = <<>>
    /\ gq_sent = <<>>
    /\ gq_retryDelay = DefaultRetryDelay
    /\ gq_waits = <<>>

GqIdle ==
    /\ gq_retries = 0 /\ gq_timeout = 0 /\ gq_callerDl = FALSE /\ gq_pc = "done"
    /\ gq_attempt = 0 /\ gq_outcomes = <<>> /\ gq_ctxAtCall = <<>>
    /\ gq_resp = [kind |-> "none", data |-> Nil, errors |-> <<>>]
    /\ gq_ctxErr = "none" /\ gq_timer = FALSE /\ gq_doneAt = NotDone
    /\ gq_lastErr = NoErr
    /\ gq_data = Nil /\ gq_err = NoErr
    /\ gq_endpoint = <<>> /\ gq_apiKey = "" /\ gq_headers = <<>> /\ gq_sent = <<>>
    /\ gq_retryDelay = {} /\ gq_waits = <<>>

\* The loop head with one iteration too many.
LoopHead_OneMore(a, last) ==
    IF a <= gq_retries + 1
    THEN /\ gq_pc' = IF a > 0 THEN "sleep" ELSE "call"
         /\ gq_timer' = FALSE
         /\ gq_waits' = IF a > 0 THEN Append(gq_waits, BackoffDelay(a, gq_retryDelay))
                        ELSE gq_waits
         /\ UNCHANGED <<gq_data, gq_err>>
    ELSE /\ gq_pc' = "done"
         /\ gq_timer' = FALSE
         /\ gq_data' = Nil
         /\ gq_err' = FinalError(gq_retries, last)
         /\ UNCHANGED gq_waits

\* The loop head `attempt <= c.config.Retries` for the value a of attempt:
\* the next iteration sleeps first when a > 0, and the loop exit returns the
\* wrapped lastErr.
LoopHead(a, last) ==
    IF a <= gq_retries
    THEN /\ gq_pc' = IF a > 0 THEN "sleep" ELSE "call"
         /\ gq_timer' = FALSE
         /\ gq_waits' = IF a > 0 THEN Append(gq_waits, BackoffDelay(a, gq_retryDelay))
                        ELSE gq_waits
         /\ UNCHANGED <<gq_data, gq_err>>
    ELSE /\ gq_pc' = "done"
         /\ gq_timer' = FALSE
         /\ gq_data' = Nil
         /\ gq_err' = FinalError(gq_retries, last)
         /\ UNCHANGED gq_waits

\* Lines 125-138: the rest of the loop body after doRequest returned res,
\* with ctx.Err() = cerr at the check of line 132.
AfterAttempt(res, cerr) ==
    IF res.err = NoErr
    THEN /\ gq_pc' = "done"
         /\ gq_data' = res.data
         /\ gq_err' = NoErr
         /\ UNCHANGED <<gq_lastErr, gq_attempt, gq_timer, gq_waits>>
    ELSE /\ gq_lastErr' = res.err
         /\ IF cerr # "none" \/ IsValidationError(res.err)
            THEN /\ gq_pc' = "done"
                 /\ gq_data' = Nil
                 /\ gq_err' = FinalError(gq_retries, res.err)
                 /\ UNCHANGED <<gq_attempt, gq_timer, gq_waits>>
            ELSE /\ gq_attempt' = gq_attempt + 1
                 /\ LoopHead(gq_attempt + 1, res.err)

\* Request is called: lines 92-111.
GqRequest ==
    /\ gq_pc = "idle"
    /\ gq_attempt' = 0
    /\ LoopHead(0, NoErr)
    /\ UNCHANGED <<gq_retries, gq_timeout, gq_callerDl, gq_outcomes, gq_ctxAtCall,
                   gq_resp, gq_ctxErr, gq_doneAt, gq_lastErr>>
    /\ UNCHANGED <<gq_endpoint, gq_apiKey, gq_headers, gq_sent, gq_retryDelay>>
    /\ UNCHANGED <<chVars, rqVars, exVars>>

\* The caller cancels the context.
GqCtxCancel ==
    /\ gq_pc # "done"
    /\ gq_ctxErr = "none"
    /\ gq_ctxErr' = "canceled"
    /\ gq_doneAt' = [pc |-> gq_pc, n |-> Len(gq_outcomes)]
    /\ UNCHANGED <<gq_retries, gq_timeout, gq_callerDl, gq_pc, gq_attempt, gq_outcomes,
                   gq_ctxAtCall, gq_resp, gq_timer, gq_lastErr, gq_data, gq_err>>
    /\ UNCHANGED <<gq_endpoint, gq_apiKey, gq_headers, gq_sent, gq_retryDelay, gq_waits>>
    /\ UNCHANGED <<chVars, rqVars, exVars>>

\* The deadline passes: the caller's, or the one line 106 added.
GqCtxDeadline ==
    /\ gq_pc # "done"
    /\ gq_ctxErr = "none"
    /\ gq_callerDl \/ (gq_pc # "idle" /\ gq_timeout > 0)
    /\ gq_ctxErr' = "deadline"
    /\ gq_doneAt' = [pc |-> gq_pc, n |-> Len(gq_outcomes)]
    /\ UNCHANGED <<gq_retries, gq_timeout, gq_callerDl, gq_pc, gq_attempt, gq_outcomes,
                   gq_ctxAtCall, gq_resp, gq_timer, gq_lastErr, gq_data, gq_err>>
    /\ UNCHANGED <<gq_endpoint, gq_apiKey, gq_headers, gq_sent, gq_retryDelay, gq_waits>>
    /\ UNCHANGED <<chVars, rqVars, exVars>>

\* The backoff delay elapses: the channel of time.After(delay) becomes ready.
GqTimerFire ==
    /\ gq_pc = "sleep"
    /\ ~gq_timer
    /\ gq_timer' = TRUE
    /\ UNCHANGED <<gq_retries, gq_timeout, gq_callerDl, gq_pc, gq_attempt, gq_outcomes,
                   gq_ctxAtCall, gq_resp, gq_ctxErr, gq_doneAt, gq_lastErr, gq_data,
                   gq_err>>
    /\ UNCHANGED <<gq_endpoint, gq_apiKey, gq_headers, gq_sent, gq_retryDelay, gq_waits>>
    /\ UNCHANGED <<chVars, rqVars, exVars>>

\* select, case <-time.After(delay): go on to doRequest.  When both channels
\* are ready Go picks one of the ready cases at random.
GqSelectTimer ==
    /\ gq_pc = "sleep"
    /\ gq_timer
    /\ gq_pc' = "call"
    /\ UNCHANGED <<gq_retries, gq_timeout, gq_callerDl, gq_attempt, gq_outcomes,
                   gq_ctxAtCall, gq_resp, gq_ctxErr, gq_timer, gq_doneAt, gq_lastErr,
                   gq_data, gq_err>>
    /\ UNCHANGED <<gq_endpoint, gq_apiKey, gq_headers, gq_sent, gq_retryDelay, gq_waits>>
    /\ UNCHANGED <<chVars, rqVars, exVars>>

\* The select without its ctx.Done case: the sleep ends and the loop goes on.
GqSelectDone_GoOn ==
    /\ gq_pc = "sleep"
    /\ gq_ctxErr # "none"
    /\ gq_pc' = "call"
    /\ UNCHANGED <<gq_retries, gq_timeout, gq_callerDl, gq_attempt, gq_outcomes,
                   gq_ctxAtCall, gq_resp, gq_ctxErr, gq_timer, gq_doneAt, gq_lastErr,
                   gq_data, gq_err>>
    /\ UNCHANGED <<gq_endpoint, gq_apiKey, gq_headers, gq_sent, gq_retryDelay, gq_waits>>
    /\ UNCHANGED <<chVars, rqVars, exVars>>

\* select, case <-ctx.Done(): return nil, ctx.Err()
GqSelectDone ==
    /\ gq_pc = "sleep"
    /\ gq_ctxErr # "none"
    /\ gq_pc' = "done"
    /\ gq_data' = Nil
    /\ gq_err' = CtxError(gq_ctxErr)
    /\ UNCHANGED <<gq_retries, gq_timeout, gq_callerDl, gq_attempt, gq_outcomes,
                   gq_ctxAtCall, gq_resp, gq_ctxErr, gq_timer, gq_doneAt, gq_lastErr>>
    /\ UNCHANGED <<gq_endpoint, gq_apiKey, gq_headers, gq_sent, gq_retryDelay, gq_waits>>
    /\ UNCHANGED <<chVars, rqVars, exVars>>

\* doRequest is called (line 124).  With a context that is already done the
\* HTTP client fails the call without a response; otherwise the request is
\* in flight.
GqSend ==
    /\ gq_pc = "call"
    /\ gq_ctxAtCall' = Append(gq_ctxAtCall, gq_ctxErr)
    /\ IF gq_ctxErr # "none"
       THEN LET resp == [kind |-> "transport", data |-> Nil, errors |-> <<>>] IN
            /\ gq_resp' = resp
            /\ gq_outcomes' = Append(gq_outcomes, OutcomeOf(resp))
            /\ AfterAttempt(doRequest(resp), gq_ctxErr)
       ELSE /\ gq_pc' = "inflight"
            /\ UNCHANGED <<gq_resp, gq_outcomes, gq_attempt, gq_timer, gq_lastErr,
                           gq_data, gq_err, gq_waits>>
    /\ UNCHANGED <<gq_retries, gq_timeout, gq_callerDl, gq_ctxErr, gq_doneAt>>
    /\ gq_sent' = Append(gq_sent, RequestHeaders(gq_endpoint, gq_apiKey, gq_headers))
    /\ UNCHANGED <<gq_endpoint, gq_apiKey, gq_headers, gq_retryDelay>>
    /\ UNCHANGED <<chVars, rqVars, exVars>>

\* doRequest returns and the loop body finishes (lines 124-138).
GqReceive ==
    /\ gq_pc = "inflight"
    /\ \E resp \in Responses :
         /\ gq_resp' = resp
         /\ gq_outcomes' = Append(gq_outcomes, OutcomeOf(resp))
         /\ AfterAttempt(doRequest(resp), gq_ctxErr)
    /\ UNCHANGED <<gq_retries, gq_timeout, gq_callerDl, gq_ctxErr, gq_doneAt,
                   gq_ctxAtCall>>
    /\ UNCHANGED <<gq_endpoint, gq_apiKey, gq_headers, gq_sent, gq_retryDelay>>
    /\ UNCHANGED <<chVars, rqVars, exVars>>

GqNext ==
    \/ GqRequest
    \/ GqCtxCancel
    \/ GqCtxDeadline
    \/ GqTimerFire
    \/ GqSelectTimer
    \/ GqSelectDone
    \/ GqSend
    \/ GqReceive

(***************************************************************************)
(* middleware/middleware.go: Chain                                         *)
(***************************************************************************)
\* The `next` argument of Handle, told apart from the middleware 1..MaxChain.
Terminal == 0
MwIds == 1..MaxChain

\* All orderings of distinct middleware, of every length up to MaxChain.
MwLists ==
    {l \in UNION {[1..n -> MwIds] : n \in 0..MaxChain} :
        \A i, j \in 1..Len(l) : i # j => l[i] # l[j]}

\* The loop building the handlers front to back, which nests them in
\* reverse list order.
RECURSIVE BuildHandler_Forward(_, _, _)
BuildHandler_Forward(mws, i, handler) ==
    IF i < 1 THEN handler
    ELSE BuildHandler_Forward(mws, i - 1, <<mws[Len(mws) + 1 - i]>> \o handler)

\* Lines 72-79.  A handler closure is the sequence of what it will run: its
\* own middleware first, then the handler it captured as currentHandler; the
\* `next` argument alone is <<Terminal>>.  The loop runs i from
\* len(middlewares)-1 down to 0 and wraps the handler built so far.
RECURSIVE BuildHandler(_, _, _)
BuildHandler(mws, i, handler) ==
    IF i < 1 THEN handler
    ELSE BuildHandler(mws, i - 1, <<mws[i]>> \o handler)

(***************************************************************************)
(* middleware/adapter_echo.go: EchoContext and the Echo adapters           *)
(*                                                                         *)
(* Echo gives every request its own echo.Context, with an empty store, and *)
(* its own *http.Request.  Values and paths carry the number of the request*)
(* that wrote them, so that a value met in another request is recognised.  *)
(***************************************************************************)
\* The handlers Echo runs for a request: two middleware wrapped with
\* AdaptMiddlewareToEcho and a handler wrapped with AdaptHandlerToEcho.
EcChain == <<"A", "B", "handler">>
EcKeys == {"site", "locale"}
EcNil == [req |-> 0, v |-> "<nil>"]
EcAbsent == [req |-> 0, v |-> "<absent>"]
EcVal(n, x) == [req |-> n, v |-> x]

\* NewEchoContext: the wrapper starts with an empty values map.
NewEchoContext == [k \in EcKeys |-> EcAbsent]

\* Get reading the local values map only.
EchoContextGet_LocalOnly(values, store, key) ==
    IF values[key] # EcAbsent THEN values[key] ELSE EcNil

\* EchoContext.Get: the wrapper's own map first, then Echo's context.
EchoContextGet(values, store, key) ==
    IF values[key] # EcAbsent THEN values[key] ELSE store[key]

EcOp(who, op, key, val) == [who |-> who, op |-> op, key |-> key, val |-> val]

\* Echo dispatches the next request: the first adapter builds its wrapper.
EcRequest ==
    /\ ec_run = 0
    /\ ec_reqs < MaxEcRequests
    /\ ec_reqs' = ec_reqs + 1
    /\ ec_store' = [k \in EcKeys |-> EcNil]
    /\ ec_urlPath' = EcVal(ec_reqs + 1, "/p")
    /\ ec_values' = <<NewEchoContext>>
    /\ ec_run' = 1
    /\ ec_log' = <<>>
    /\ UNCHANGED <<ch_mws, ch_calls, ch_handler, ch_trace, ch_pc>>
    /\ UNCHANGED <<gqVars, rqVars, exVars>>

\* ctx.Set(key, val) in the running wrapper: its map and Echo's store.
EcSet ==
    /\ ec_run > 0
    /\ Len(ec_log) < MaxEcOps
    /\ \E k \in EcKeys, x \in {"a", "b"} :
         LET val == EcVal(ec_reqs, x) IN
         /\ ec_values' = [ec_values EXCEPT ![ec_run][k] = val]
         /\ ec_store' = [ec_store EXCEPT ![k] = val]
         /\ ec_log' = Append(ec_log, EcOp(ec_run, "Set", k, val))
    /\ UNCHANGED <<ec_reqs, ec_urlPath, ec_run>>
    /\ UNCHANGED <<ch_mws, ch_calls, ch_handler, ch_trace, ch_pc>>
    /\ UNCHANGED <<gqVars, rqVars, exVars>>

\* ctx.Get(key) in the running wrapper.
EcGet ==
    /\ ec_run > 0
    /\ Len(ec_log) < MaxEcOps
    /\ \E k \in EcKeys :
         ec_log' = Append(ec_log,
                     EcOp(ec_run, "Get", k, EchoContextGet(ec_values[ec_run], ec_store, k)))
    /\ UNCHANGED <<ec_reqs, ec_store, ec_urlPath, ec_values, ec_run>>
    /\ UNCHANGED <<ch_mws, ch_calls, ch_handler, ch_trace, ch_pc>>
    /\ UNCHANGED <<gqVars, rqVars, exVars>>

\* ctx.SetPath(path): written into the request's URL.
EcSetPath ==
    /\ ec_run > 0
    /\ Len(ec_log) < MaxEcOps
    /\ \E x \in {"/q"} :
         /\ ec_urlPath' = EcVal(ec_reqs, x)
         /\ ec_log' = Append(ec_log, EcOp(ec_run, "SetPath", "path", EcVal(ec_reqs, x)))
    /\ UNCHANGED <<ec_reqs, ec_store, ec_values, ec_run>>
    /\ UNCHANGED <<ch_mws, ch_calls, ch_handler, ch_trace, ch_pc>>
    /\ UNCHANGED <<gqVars, rqVars, exVars>>

\* ctx.Path(): read from the request's URL.
EcPath ==
    /\ ec_run > 0
    /\ Len(ec_log) < MaxEcOps
    /\ ec_log' = Append(ec_log, EcOp(ec_run, "Path", "path", ec_urlPath))
    /\ UNCHANGED <<ec_reqs, ec_store, ec_urlPath, ec_values, ec_run>>
    /\ UNCHANGED <<ch_mws, ch_calls, ch_handler, ch_trace, ch_pc>>
    /\ UNCHANGED <<gqVars, rqVars, exVars>>

\* The middleware calls next: next(c) hands Echo's context to the following
\* adapter, which builds a wrapper of its own.  A wrapper calls next once.
EcNext ==
    /\ ec_run > 0
    /\ ec_run = Len(ec_values)
    /\ ec_run < Len(EcChain)
    /\ ec_values' = Append(ec_values, NewEchoContext)
    /\ ec_run' = ec_run + 1
    /\ UNCHANGED <<ec_reqs, ec_store, ec_urlPath, ec_log>>
    /\ UNCHANGED <<ch_mws, ch_calls, ch_handler, ch_trace, ch_pc>>
    /\ UNCHANGED <<gqVars, rqVars, exVars>>

\* The running handler returns to the one that called it.
EcReturn ==
    /\ ec_run > 0
    /\ ec_run' = ec_run - 1
    /\ UNCHANGED <<ec_reqs, ec_store, ec_urlPath, ec_values, ec_log>>
    /\ UNCHANGED <<ch_mws, ch_calls, ch_handler, ch_trace, ch_pc>>
    /\ UNCHANGED <<gqVars, rqVars, exVars>>

\* A server that has not been given a request.
EcIdle ==
    /\ ec_reqs = 0
    /\ ec_store = [k \in EcKeys |-> EcNil]
    /\ ec_urlPath = EcVal(0, "/")
    /\ ec_values = <<>>
    /\ ec_run = 0
    /\ ec_log = <<>>

ChInit ==
    /\ EcIdle
    /\ ch_mws \in MwLists
    /\ ch_calls \in [MwIds -> BOOLEAN]
    /\ ch_handler = <<>>
    /\ ch_trace = <<>>
    /\ ch_pc = "idle"

ChIdle ==
    /\ EcIdle
    /\ ch_mws = <<>> /\ ch_calls = [m \in MwIds |-> TRUE]
    /\ ch_handler = <<>> /\ ch_trace = <<>> /\ ch_pc = "returned"

\* Chain(middlewares...).Handle(ctx, next): build the handler (lines 72-79)
\* and call it (line 80), which invokes the outermost closure.
ChHandle ==
    /\ ch_pc = "idle"
    /\ LET handler == BuildHandler(ch_mws, Len(ch_mws), <<Terminal>>) IN
         /\ ch_handler' = handler
         /\ ch_trace' = <<Head(handler)>>
    /\ ch_pc' = "running"
    /\ UNCHANGED <<ch_mws, ch_calls>>
    /\ UNCHANGED <<ecVars, gqVars, rqVars, exVars>>

\* The running middleware calls next: mw.Handle(c, currentHandler) invokes
\* the handler it captured (line 77).
ChCallNext ==
    /\ ch_pc = "running"
    /\ Head(ch_handler) # Terminal
    /\ ch_calls[Head(ch_handler)]
    /\ ch_handler' = Tail(ch_handler)
    /\ ch_trace' = Append(ch_trace, Head(Tail(ch_handler)))
    /\ UNCHANGED <<ch_mws, ch_calls, ch_pc>>
    /\ UNCHANGED <<ecVars, gqVars, rqVars, exVars>>

\* The running middleware returns without calling next: every enclosing
\* closure returns its result (lines 77 and 80).
ChShortCircuit ==
    /\ ch_pc = "running"
    /\ Head(ch_handler) # Terminal
    /\ ~ch_calls[Head(ch_handler)]
    /\ ch_pc' = "returned"
    /\ UNCHANGED <<ch_mws, ch_calls, ch_handler, ch_trace>>
    /\ UNCHANGED <<ecVars, gqVars, rqVars, exVars>>

\* The terminal handler ran and returns.
ChTerminalReturn ==
    /\ ch_pc = "running"
    /\ Head(ch_handler) = Terminal
    /\ ch_pc' = "returned"
    /\ UNCHANGED <<ch_mws, ch_calls, ch_handler, ch_trace>>
    /\ UNCHANGED <<ecVars, gqVars, rqVars, exVars>>

ChNext ==
    \/ ChHandle
    \/ ChCallNext
    \/ ChShortCircuit
    \/ ChTerminalReturn

(***************************************************************************)
(* Strings as sequences of one-character strings, and the functions of the *)
(* Go package strings that the code calls on them.                         *)
(***************************************************************************)
Empty == <<>>
Slash == <<"/">>

\* strings.ToLower
ToLower(s) ==
    LET Uppers == <<"A", "B", "C", "D", "E", "F", "G", "H", "I", "J", "K", "L", "M",
                    "N", "O", "P", "Q", "R", "S", "T", "U", "V", "W", "X", "Y", "Z">>
        Lowers == <<"a", "b", "c", "d", "e", "f", "g", "h", "i", "j", "k", "l", "m",
                    "n", "o", "p", "q", "r", "s", "t", "u", "v", "w", "x", "y", "z">>
        LowerChar(c) ==
            IF \E i \in 1..Len(Uppers) : Uppers[i] = c
            THEN Lowers[CHOOSE i \in 1..Len(Uppers) : Uppers[i] = c]
            ELSE c IN
    [i \in 1..Len(s) |-> LowerChar(s[i])]

\* strings.HasPrefix, strings.HasSuffix, strings.Contains
HasPrefix(s, p) == Len(p) <= Len(s) /\ SubSeq(s, 1, Len(p)) = p
HasSuffix(s, p) == Len(p) <= Len(s) /\ SubSeq(s, Len(s) - Len(p) + 1, Len(s)) = p
Contains(s, sub) ==
    \E i \in 1..(Len(s) - Len(sub) + 1) : SubSeq(s, i, i + Len(sub) - 1) = sub

\* strings.Index for a one-character separator: 0-based, -1 when absent.
Index(s, c) ==
    IF \E i \in 1..Len(s) : s[i] = c
    THEN (CHOOSE i \in 1..Len(s) : s[i] = c /\ \A j \in 1..(i - 1) : s[j] # c) - 1
    ELSE -1

\* strings.Split for a one-character separator.
RECURSIVE Split(_, _)
Split(s, c) ==
    LET i == Index(s, c) IN
    IF i < 0 THEN <<s>>
    ELSE <<SubSeq(s, 1, i)>> \o Split(SubSeq(s, i + 2, Len(s)), c)

\* strings.Trim(s, c) for a one-character cutset.
RECURSIVE TrimLeft(_, _)
TrimLeft(s, c) == IF s # <<>> /\ Head(s) = c THEN TrimLeft(Tail(s), c) ELSE s
RECURSIVE TrimRight(_, _)
TrimRight(s, c) ==
    IF s # <<>> /\ s[Len(s)] = c THEN TrimRight(SubSeq(s, 1, Len(s) - 1), c) ELSE s
Trim(s, c) == TrimRight(TrimLeft(s, c), c)

\* strings.TrimSpace (the only white space of the inputs is the blank)
TrimSpace(s) == Trim(s, " ")

(***************************************************************************)
(* client: GetSiteRewrite                                                  *)
(***************************************************************************)
SITE_PREFIX == <<"_", "s", "i", "t", "e", "_">>

\* GetSiteRewrite: fmt.Sprintf("/%s%s%s", SITE_PREFIX, siteName, path) after
\* a leading slash is ensured.
GetSiteRewrite(path, siteName) ==
    LET p == IF HasPrefix(path, Slash) THEN path ELSE Slash \o path IN
    Slash \o SITE_PREFIX \o siteName \o p

(***************************************************************************)
(* site: the site resolver                                                 *)
(***************************************************************************)
\* The port cut of GetByHost and of normalizeHostname: hostname[:idx] when
\* idx := strings.Index(hostname, ":") is > 0.
StripPort(hostname) ==
    LET idx == Index(hostname, ":") IN
    IF idx > 0 THEN SubSeq(hostname, 1, idx) ELSE hostname

\* matchesWildcard(pattern, hostname)
matchesWildcard(pattern, hostname) ==
    LET pat == ToLower(pattern)
        h == ToLower(hostname) IN
    IF ~Contains(pat, <<"*">>) THEN FALSE
    ELSE IF HasPrefix(pat, <<"*", ".">>)
         THEN LET suffix == SubSeq(pat, 3, Len(pat)) IN
              HasSuffix(h, <<".">> \o suffix) \/ h = suffix
         ELSE FALSE

\* The first element of sites whose index is a hit, or dflt: a `for range`
\* loop that returns at its first hit.
FirstSite(sites, hits, dflt) ==
    IF hits = {} THEN dflt
    ELSE sites[CHOOSE i \in hits : \A j \in hits : i <= j]

\* GetByHost with the wildcard pass run before the exact pass.
GetByHost_WildcardFirst(sites, defaultSite, hostname) ==
    LET host == ToLower(StripPort(hostname))
        Exact == {i \in 1..Len(sites) : ToLower(sites[i].hostName) = host}
        Wild == {i \in 1..Len(sites) : matchesWildcard(sites[i].hostName, host)} IN
    FirstSite(sites, Wild, FirstSite(sites, Exact, defaultSite))

\* GetByHost: exact pass, wildcard pass, default site; never nil.
GetByHost(sites, defaultSite, hostname) ==
    LET host == ToLower(StripPort(hostname))
        Exact == {i \in 1..Len(sites) : ToLower(sites[i].hostName) = host}
        Wild == {i \in 1..Len(sites) : matchesWildcard(sites[i].hostName, host)} IN
    FirstSite(sites, Exact, FirstSite(sites, Wild, defaultSite))

\* GetByName falling back to the default site for an unknown name.
GetByName_DefaultFallback(sites, defaultSite, name) ==
    LET searchName == ToLower(name)
        Named == {i \in 1..Len(sites) : ToLower(sites[i].name) = searchName} IN
    [site |-> FirstSite(sites, Named, defaultSite), err |-> FALSE]

\* GetByName: the first site of that name, the default site when it has that
\* name, else (nil, "site not found: ...").
GetByName(sites, defaultSite, name) ==
    LET searchName == ToLower(name)
        Named == {i \in 1..Len(sites) : ToLower(sites[i].name) = searchName} IN
    IF Named # {} \/ ToLower(defaultSite.name) = searchName
    THEN [site |-> FirstSite(sites, Named, defaultSite), err |-> FALSE]
    ELSE [site |-> [name |-> <<"<nil>">>, hostName |-> <<"<nil>">>], err |-> TRUE]

MaxLookups == 2

\* A caller looks a site up by name.
SrGetByName ==
    /\ Len(sr_log) < MaxLookups
    /\ \E name \in {<<"a">>, <<"A">>, <<"d">>, <<"D">>, <<"a", ".", "c">>, <<"z">>, <<>>} :
         LET r == GetByName(ms_config.sites, ms_config.defaultSite, name) IN
         sr_log' = Append(sr_log, [name |-> name, site |-> r.site, err |-> r.err])
    /\ UNCHANGED <<hc_config, cx_resp, ca_layout, ca_fetch, ca_err, rcVars>>
    /\ UNCHANGED <<gqVars, chVars, rqVars, rdVars, esVars, pcVars>>

(***************************************************************************)
(* middleware: the request context and the multisite middleware            *)
(***************************************************************************)
Null == <<"<nil>">>
SiteKey == "site"
LocaleKey == "locale"
OriginalPathKey == "originalPath"
RewritePathKey == "rewritePath"
BagKeys == {SiteKey, LocaleKey, OriginalPathKey, RewritePathKey}

SiteCookieName == "sc_site"
LocaleCookieName == "sc_locale"
NoCookie == [present |-> FALSE, value |-> Empty]
CookieOf(v) == [present |-> TRUE, value |-> v]

\* getHostname: X-Forwarded-Host first, then the Host header, port removed.
getHostname(headers) ==
    IF headers["X-Forwarded-Host"] # Empty
    THEN StripPort(headers["X-Forwarded-Host"])
    ELSE StripPort(headers["Host"])

\* The site name with the cookie looked at before the query parameter.
ResolveSiteName_CookieFirst(cfg, query, cookies, hostname) ==
    LET cookie == cookies[SiteCookieName]
        s1 == IF cfg.useCookie /\ cookie.present THEN cookie.value ELSE Empty
        s2 == IF s1 = Empty /\ query["site"] # Empty THEN query["site"] ELSE s1
        s3 == IF s2 = Empty
              THEN GetByHost(cfg.sites, cfg.defaultSite, hostname).name ELSE s2 IN
    IF s3 = Empty THEN cfg.defaultSite.name ELSE s3

\* The site name with the query parameter and the cookie taken only when
\* they name a site the resolver knows.
ResolveSiteName_Validated(cfg, query, cookies, hostname) ==
    LET siteParam == query["site"]
        cookie == cookies[SiteCookieName]
        known(n) == ~GetByName(cfg.sites, cfg.defaultSite, n).err
        s1 == IF siteParam # Empty /\ known(siteParam) THEN siteParam ELSE Empty
        s2 == IF s1 = Empty /\ cfg.useCookie /\ cookie.present /\ known(cookie.value)
              THEN cookie.value ELSE s1
        s3 == IF s2 = Empty
              THEN GetByHost(cfg.sites, cfg.defaultSite, hostname).name ELSE s2 IN
    IF s3 = Empty THEN cfg.defaultSite.name ELSE s3

\* Lines 494-529 of MultisiteMiddleware.Handle: the value of siteName.  The
\* siteInfo of the query and cookie branches is never read.
ResolveSiteName(cfg, query, cookies, hostname) ==
    LET siteParam == query["site"]
        cookie == cookies[SiteCookieName]
        s1 == IF siteParam # Empty THEN siteParam ELSE Empty
        s2 == IF s1 = Empty /\ cfg.useCookie /\ cookie.present THEN cookie.value ELSE s1
        s3 == IF s2 = Empty
              THEN GetByHost(cfg.sites, cfg.defaultSite, hostname).name ELSE s2 IN
    IF s3 = Empty THEN cfg.defaultSite.name ELSE s3

\* The cookie of lines 535-542, with the attributes NewMultisiteMiddleware
\* leaves in the configuration (Secure, HttpOnly, SameSite=None).
SiteCookie(siteName) ==
    [name |-> SiteCookieName, value |-> siteName, path |-> "/", secure |-> TRUE,
     httpOnly |-> TRUE, sameSite |-> "None", maxAge |-> 0]

\* Handle without the early return of lines 483-485.
MultisiteHandle_AlwaysResolve ==
    /\ cx_chain # <<>>
    /\ Head(cx_chain) = "multisite"
    /\ LET path == cx_path
           siteName == ResolveSiteName(ms_config, rq_query, rq_cookies,
                                       getHostname(rq_headers))
           rewritePath == GetSiteRewrite(path, siteName) IN
         /\ cx_bag' = [cx_bag EXCEPT ![SiteKey] = siteName,
                                     ![RewritePathKey] = rewritePath,
                                     ![OriginalPathKey] = path]
         /\ cx_setCookies' = Append(cx_setCookies, SiteCookie(siteName))
    /\ cx_chain' = Tail(cx_chain)
    /\ UNCHANGED <<ms_config, lc_config, rq_path, rq_query, rq_cookies, rq_headers,
                   cx_path>>
    /\ UNCHANGED <<gqVars, chVars, exVars>>

\* Handle writing no cookie when the site came from the site cookie.
MultisiteHandle_CookieUnlessFromCookie ==
    /\ cx_chain # <<>>
    /\ Head(cx_chain) = "multisite"
    /\ IF ~ms_config.enabled
       THEN UNCHANGED <<cx_bag, cx_setCookies>>
       ELSE LET path == cx_path
                siteName == ResolveSiteName(ms_config, rq_query, rq_cookies,
                                            getHostname(rq_headers))
                rewritePath == GetSiteRewrite(path, siteName)
                fromCookie == /\ rq_query["site"] = Empty
                              /\ ms_config.useCookie
                              /\ rq_cookies[SiteCookieName].present
                              /\ rq_cookies[SiteCookieName].value # Empty IN
            /\ cx_bag' = [cx_bag EXCEPT ![SiteKey] = siteName,
                                        ![RewritePathKey] = rewritePath,
                                        ![OriginalPathKey] = path]
            /\ cx_setCookies' = IF fromCookie THEN cx_setCookies
                                ELSE Append(cx_setCookies, SiteCookie(siteName))
    /\ cx_chain' = Tail(cx_chain)
    /\ UNCHANGED <<ms_config, lc_config, rq_path, rq_query, rq_cookies, rq_headers,
                   cx_path>>
    /\ UNCHANGED <<gqVars, chVars, exVars>>

\* MultisiteMiddleware.Handle
MultisiteHandle ==
    /\ cx_chain # <<>>
    /\ Head(cx_chain) = "multisite"
    /\ IF ~ms_config.enabled
       THEN UNCHANGED <<cx_bag, cx_setCookies>>
       ELSE LET path == cx_path
                siteName == ResolveSiteName(ms_config, rq_query, rq_cookies,
                                            getHostname(rq_headers))
                rewritePath == GetSiteRewrite(path, siteName) IN
            /\ cx_bag' = [cx_bag EXCEPT ![SiteKey] = siteName,
                                        ![RewritePathKey] = rewritePath,
                                        ![OriginalPathKey] = path]
            /\ cx_setCookies' = Append(cx_setCookies, SiteCookie(siteName))
    /\ cx_chain' = Tail(cx_chain)
    /\ UNCHANGED <<ms_config, lc_config, rq_path, rq_query, rq_cookies, rq_headers,
                   cx_path>>
    /\ UNCHANGED <<gqVars, chVars, exVars>>

(***************************************************************************)
(* middleware/locale.go: the locale middleware                             *)
(***************************************************************************)
\* isSupported: an empty SupportedLanguages list supports everything.
isSupported(cfg, locale) ==
    IF Len(cfg.supported) = 0 THEN TRUE
    ELSE \E i \in 1..Len(cfg.supported) : ToLower(cfg.supported[i]) = ToLower(locale)

\* extractLocaleFromPath: the first part of the trimmed path when it is 2
\* long, or 5 long with '-' at index 2.
extractLocaleFromPath(path) ==
    LET parts == Split(Trim(path, "/"), "/")
        firstPart == parts[1] IN
    IF Len(firstPart) = 2 \/ (Len(firstPart) = 5 /\ firstPart[3] = "-")
    THEN firstPart ELSE Empty

\* The loop with the quality value left on the entry.
RECURSIVE ParseLanguages_KeepWeight(_, _, _)
ParseLanguages_KeepWeight(cfg, languages, i) ==
    IF i > Len(languages) THEN Empty
    ELSE LET language == TrimSpace(languages[i])
             idx == Index(language, "-") IN
         IF isSupported(cfg, language) THEN language
         ELSE IF idx > 0 /\ isSupported(cfg, SubSeq(language, 1, idx))
              THEN SubSeq(language, 1, idx)
              ELSE ParseLanguages_KeepWeight(cfg, languages, i + 1)

\* The loop of parseAcceptLanguage from entry i of languages on.
RECURSIVE ParseLanguages(_, _, _)
ParseLanguages(cfg, languages, i) ==
    IF i > Len(languages) THEN Empty
    ELSE LET parts == Split(languages[i], ";")
             language == TrimSpace(parts[1])
             idx == Index(language, "-") IN
         IF isSupported(cfg, language) THEN language
         ELSE IF idx > 0 /\ isSupported(cfg, SubSeq(language, 1, idx))
              THEN SubSeq(language, 1, idx)
              ELSE ParseLanguages(cfg, languages, i + 1)

\* parseAcceptLanguage
parseAcceptLanguage(cfg, header) == ParseLanguages(cfg, Split(header, ","), 1)

\* The locale with the cookie looked at before the query parameters.
ResolveLocale_CookieFirst(cfg, path, query, cookies, headers) ==
    LET fromPath == extractLocaleFromPath(path)
        localeParam == IF query["sc_lang"] = Empty THEN query["locale"]
                       ELSE query["sc_lang"]
        cookie == cookies[LocaleCookieName]
        acceptLang == headers["Accept-Language"]
        fromHeader == parseAcceptLanguage(cfg, acceptLang) IN
    IF fromPath # Empty /\ isSupported(cfg, fromPath)
    THEN [locale |-> fromPath, tier |-> 1]
    ELSE IF cookie.present /\ isSupported(cfg, cookie.value)
    THEN [locale |-> cookie.value, tier |-> 3]
    ELSE IF localeParam # Empty /\ isSupported(cfg, localeParam)
    THEN [locale |-> localeParam, tier |-> 2]
    ELSE IF cfg.useAcceptLanguage /\ acceptLang # Empty /\ fromHeader # Empty
            /\ isSupported(cfg, fromHeader)
    THEN [locale |-> fromHeader, tier |-> 4]
    ELSE [locale |-> cfg.defaultLanguage, tier |-> 5]

\* The locale with the `locale` parameter tried whenever sc_lang gives no
\* supported language.
ResolveLocale_LocaleFallback(cfg, path, query, cookies, headers) ==
    LET fromPath == extractLocaleFromPath(path)
        localeParam == IF query["sc_lang"] # Empty /\ isSupported(cfg, query["sc_lang"])
                       THEN query["sc_lang"] ELSE query["locale"]
        cookie == cookies[LocaleCookieName]
        acceptLang == headers["Accept-Language"]
        fromHeader == parseAcceptLanguage(cfg, acceptLang) IN
    IF fromPath # Empty /\ isSupported(cfg, fromPath)
    THEN [locale |-> fromPath, tier |-> 1]
    ELSE IF localeParam # Empty /\ isSupported(cfg, localeParam)
    THEN [locale |-> localeParam, tier |-> 2]
    ELSE IF cookie.present /\ isSupported(cfg, cookie.value)
    THEN [locale |-> cookie.value, tier |-> 3]
    ELSE IF cfg.useAcceptLanguage /\ acceptLang # Empty /\ fromHeader # Empty
            /\ isSupported(cfg, fromHeader)
    THEN [locale |-> fromHeader, tier |-> 4]
    ELSE [locale |-> cfg.defaultLanguage, tier |-> 5]

\* Lines 64-123 of LocaleMiddleware.Handle: the locale it stores and the
\* numbered branch (1 path, 2 query, 3 cookie, 4 Accept-Language, 5 default)
\* that returns.
ResolveLocale(cfg, path, query, cookies, headers) ==
    LET fromPath == extractLocaleFromPath(path)
        localeParam == IF query["sc_lang"] = Empty THEN query["locale"]
                       ELSE query["sc_lang"]
        cookie == cookies[LocaleCookieName]
        acceptLang == headers["Accept-Language"]
        fromHeader == parseAcceptLanguage(cfg, acceptLang) IN
    IF fromPath # Empty /\ isSupported(cfg, fromPath)
    THEN [locale |-> fromPath, tier |-> 1]
    ELSE IF localeParam # Empty /\ isSupported(cfg, localeParam)
    THEN [locale |-> localeParam, tier |-> 2]
    ELSE IF cookie.present /\ isSupported(cfg, cookie.value)
    THEN [locale |-> cookie.value, tier |-> 3]
    ELSE IF cfg.useAcceptLanguage /\ acceptLang # Empty /\ fromHeader # Empty
            /\ isSupported(cfg, fromHeader)
    THEN [locale |-> fromHeader, tier |-> 4]
    ELSE [locale |-> cfg.defaultLanguage, tier |-> 5]

\* setCookie, with the attributes NewLocaleMiddleware leaves in the
\* configuration (Secure, HttpOnly false, SameSite=Lax) and one year MaxAge.
OneYear == 31536000
LocaleCookie(locale) ==
    [name |-> LocaleCookieName, value |-> locale, path |-> "/", secure |-> TRUE,
     httpOnly |-> FALSE, sameSite |-> "Lax", maxAge |-> OneYear]

\* Handle with m.setCookie called in the cookie branch as well.
LocaleHandle_CookieAlways ==
    /\ cx_chain # <<>>
    /\ Head(cx_chain) = "locale"
    /\ LET r == ResolveLocale(lc_config, cx_path, rq_query, rq_cookies, rq_headers) IN
         /\ cx_bag' = [cx_bag EXCEPT ![LocaleKey] = r.locale]
         /\ cx_setCookies' = Append(cx_setCookies, LocaleCookie(r.locale))
    /\ cx_chain' = Tail(cx_chain)
    /\ UNCHANGED <<ms_config, lc_config, rq_path, rq_query, rq_cookies, rq_headers,
                   cx_path>>
    /\ UNCHANGED <<gqVars, chVars, exVars>>

\* LocaleMiddleware.Handle: the cookie branch (3) sets no cookie.
LocaleHandle ==
    /\ cx_chain # <<>>
    /\ Head(cx_chain) = "locale"
    /\ LET r == ResolveLocale(lc_config, cx_path, rq_query, rq_cookies, rq_headers) IN
         /\ cx_bag' = [cx_bag EXCEPT ![LocaleKey] = r.locale]
         /\ cx_setCookies' = IF r.tier = 3 THEN cx_setCookies
                             ELSE Append(cx_setCookies, LocaleCookie(r.locale))
    /\ cx_chain' = Tail(cx_chain)
    /\ UNCHANGED <<ms_config, lc_config, rq_path, rq_query, rq_cookies, rq_headers,
                   cx_path>>
    /\ UNCHANGED <<gqVars, chVars, exVars>>

(***************************************************************************)
(* site/redirects.go and middleware/redirects.go: redirect rules           *)
(***************************************************************************)
MaxRequests == 3

StatusMovedPermanently == 301
StatusFound == 302

Rule(p, t, ty, rx) == [pattern |-> p, target |-> t, redirectType |-> ty, isRegex |-> rx]
NoRule == Rule(Empty, Empty, "", FALSE)

\* regexp.MatchString for the patterns of the rule lists below: literal
\* characters, '.', a leading '^', a trailing '$'.  A pattern holding '(' is
\* the unclosed group, which regexp rejects with an error.  The match is a
\* search: it may start anywhere unless '^' pins it.
RegexError(pattern) == Contains(pattern, <<"(">>)

MatchString(pattern, s) ==
    LET a == IF pattern # <<>> /\ Head(pattern) = "^" THEN Tail(pattern) ELSE pattern
        core == IF a # <<>> /\ a[Len(a)] = "$" THEN SubSeq(a, 1, Len(a) - 1) ELSE a
        fromStart == pattern # <<>> /\ Head(pattern) = "^"
        toEnd == pattern # <<>> /\ pattern[Len(pattern)] = "$"
        starts == IF fromStart THEN {1} ELSE 1..(Len(s) + 1)
        At(i) == /\ i + Len(core) - 1 <= Len(s)
                 /\ \A k \in 1..Len(core) : core[k] = "." \/ core[k] = s[i + k - 1]
                 /\ toEnd => i + Len(core) - 1 = Len(s) IN
    \E i \in starts : At(i)

\* The normalisation at the head of GetRedirect.
NormalizeRedirectPath(path) ==
    LET t == TrimSpace(path) IN
    IF HasPrefix(t, Slash) THEN t ELSE Slash \o t

\* The indexes the two loops of GetRedirect stop at.
ExactHits(path, redirects) ==
    {i \in 1..Len(redirects) :
        ~redirects[i].isRegex /\ redirects[i].pattern = NormalizeRedirectPath(path)}

RegexHits(path, redirects) ==
    {i \in 1..Len(redirects) :
        /\ redirects[i].isRegex
        /\ ~RegexError(redirects[i].pattern)
        /\ MatchString(redirects[i].pattern, NormalizeRedirectPath(path))}

FirstOf(hits) == CHOOSE i \in hits : \A j \in hits : i <= j

\* GetRedirect with one pass over the list, rules of both kinds in list order.
GetRedirect_ListOrder(path, redirects) ==
    LET hits == ExactHits(path, redirects) \cup RegexHits(path, redirects) IN
    IF hits # {} THEN [found |-> TRUE, rule |-> redirects[FirstOf(hits)]]
    ELSE [found |-> FALSE, rule |-> NoRule]

\* GetRedirect: the exact pass, then the regex pass, then nil.
GetRedirect(path, redirects) ==
    IF ExactHits(path, redirects) # {}
    THEN [found |-> TRUE, rule |-> redirects[FirstOf(ExactHits(path, redirects))]]
    ELSE IF RegexHits(path, redirects) # {}
    THEN [found |-> TRUE, rule |-> redirects[FirstOf(RegexHits(path, redirects))]]
    ELSE [found |-> FALSE, rule |-> NoRule]

NoResponse == [status |-> 0, location |-> Empty]

\* The switch of Handle with an unknown type falling through to next.
ApplyRedirect_UnknownToNext(rule, path, bag) ==
    IF rule.redirectType = "301"
    THEN [resp |-> [status |-> StatusMovedPermanently, location |-> rule.target],
          path |-> path, bag |-> bag, next |-> FALSE]
    ELSE IF rule.redirectType = "302"
    THEN [resp |-> [status |-> StatusFound, location |-> rule.target],
          path |-> path, bag |-> bag, next |-> FALSE]
    ELSE IF rule.redirectType = "SERVER_TRANSFER"
    THEN [resp |-> NoResponse, path |-> rule.target,
          bag |-> [bag EXCEPT ![OriginalPathKey] = path,
                              ![RewritePathKey] = rule.target],
          next |-> TRUE]
    ELSE [resp |-> NoResponse, path |-> path, bag |-> bag, next |-> TRUE]

\* The switch of Handle on redirect.RedirectType.
ApplyRedirect(rule, path, bag) ==
    IF rule.redirectType = "301"
    THEN [resp |-> [status |-> StatusMovedPermanently, location |-> rule.target],
          path |-> path, bag |-> bag, next |-> FALSE]
    ELSE IF rule.redirectType = "302"
    THEN [resp |-> [status |-> StatusFound, location |-> rule.target],
          path |-> path, bag |-> bag, next |-> FALSE]
    ELSE IF rule.redirectType = "SERVER_TRANSFER"
    THEN [resp |-> NoResponse, path |-> rule.target,
          bag |-> [bag EXCEPT ![OriginalPathKey] = path,
                              ![RewritePathKey] = rule.target],
          next |-> TRUE]
    ELSE [resp |-> [status |-> StatusFound, location |-> rule.target],
          path |-> path, bag |-> bag, next |-> FALSE]

\* What Handle does once m.redirects is loaded: match, then apply.
MatchAndApply(redirects) ==
    LET path == cx_path
        r == GetRedirect(path, redirects)
        a == ApplyRedirect(r.rule, path, cx_bag) IN
    /\ rd_match' = [looked |-> TRUE, found |-> r.found, rule |-> r.rule]
    /\ IF ~r.found
       THEN /\ cx_chain' = Tail(cx_chain)
            /\ UNCHANGED <<cx_path, cx_bag, rd_resp>>
       ELSE /\ rd_resp' = a.resp
            /\ cx_path' = a.path
            /\ cx_bag' = a.bag
            /\ cx_chain' = IF a.next THEN Tail(cx_chain) ELSE <<>>

\* RedirectsMiddleware.Handle, loadRedirects included.  FetchRedirects either
\* fails or returns the (non-nil) rule list.
RedirectsHandle ==
    /\ cx_chain # <<>>
    /\ Head(cx_chain) = "redirects"
    /\ IF rd_redirects.isNil
       THEN /\ rd_fetches' = Append(rd_fetches,
                                 IF cx_bag[SiteKey] # Null THEN cx_bag[SiteKey]
                                 ELSE <<"c">>)
            /\ \E ok \in BOOLEAN :
                 IF ok
                 THEN /\ rd_redirects' = [isNil |-> FALSE, list |-> rd_rules]
                      /\ MatchAndApply(rd_rules)
                      /\ UNCHANGED rd_failed
                 ELSE /\ rd_failed' = TRUE
                      /\ cx_chain' = Tail(cx_chain)
                      /\ UNCHANGED <<rd_redirects, rd_match, rd_resp, cx_path, cx_bag>>
       ELSE /\ MatchAndApply(rd_redirects.list)
            /\ UNCHANGED <<rd_redirects, rd_fetches, rd_failed>>
    /\ UNCHANGED <<rd_rules, rd_handled>>
    /\ UNCHANGED <<ms_config, lc_config, rq_path, rq_query, rq_cookies, rq_headers,
                   cx_setCookies>>
    /\ UNCHANGED <<gqVars, chVars, esVars, pcVars, hnVars>>

RulesRegexFirst ==
    <<Rule(<<"^", "/", "a">>, <<"/", "1">>, "301", TRUE),
      Rule(<<"/", "a">>, <<"/", "2">>, "SERVER_TRANSFER", FALSE),
      Rule(<<"/", "a">>, <<"/", "3">>, "302", FALSE),
      Rule(<<"/", "b">>, <<"/", "4">>, "302", FALSE)>>
RulesRegexOnly ==
    <<Rule(<<"(">>, <<"/", "1">>, "301", TRUE),
      Rule(<<"/", ".", "$">>, <<"/", "2">>, "307", TRUE),
      Rule(<<"b">>, <<"/", "3">>, "301", TRUE),
      Rule(<<"/", "z", "z">>, <<"/", "4">>, "", FALSE)>>

\* The next request reaches the instance with a fresh context; the site key
\* is set when a multisite middleware ran before.
RedirectsRequest ==
    /\ rd_handled < MaxRequests
    /\ IF cx_chain = <<>> THEN TRUE ELSE Head(cx_chain) = "terminal"
    /\ rd_handled' = rd_handled + 1
    /\ \E path \in
            {<<"/", "a">>, <<" ", "/", "a", " ">>, <<"/", "b">>, <<"b">>,
            <<"/", "z", "z">>, <<"/", "q", "q">>}, site \in {Null, <<"d">>} :
         /\ rq_path' = path
         /\ cx_path' = path
         /\ cx_bag' = [k \in BagKeys |-> IF k = SiteKey THEN site ELSE Null]
    /\ cx_setCookies' = <<>>
    /\ cx_chain' = <<"redirects", "terminal">>
    /\ rd_resp' = NoResponse
    /\ rd_match' = [looked |-> FALSE, found |-> FALSE, rule |-> NoRule]
    /\ UNCHANGED <<rd_rules, rd_redirects, rd_fetches, rd_failed>>
    /\ UNCHANGED <<ms_config, lc_config, rq_query, rq_cookies, rq_headers>>
    /\ UNCHANGED <<gqVars, chVars, esVars, pcVars, hnVars>>

\* NewRedirectsMiddleware: nothing loaded.
RdNew(lists) ==
    /\ rd_rules \in lists
    /\ rd_redirects = [isNil |-> TRUE, list |-> <<>>]
    /\ rd_fetches = <<>>
    /\ rd_failed = FALSE
    /\ rd_handled = 0
    /\ rd_resp = NoResponse
    /\ rd_match = [looked |-> FALSE, found |-> FALSE, rule |-> NoRule]

RdIdle == RdNew({<<>>})

(***************************************************************************)
(* middleware/locale.go: the editing security gate                         *)
(***************************************************************************)
\* Header values are sequences of string pieces, so that strings.Join and
\* the "frame-ancestors " prefix are computed.
Unset == <<"<unset>">>
HeaderNames ==
    {"Access-Control-Allow-Origin", "Access-Control-Allow-Credentials",
     "Access-Control-Allow-Methods", "Access-Control-Allow-Headers",
     "Access-Control-Max-Age", "Access-Control-Expose-Headers",
     "Content-Security-Policy"}
NoHeaders == [n \in HeaderNames |-> Unset]

StatusNoContent == 204
StatusUnauthorized == 401
StatusForbidden == 403

RECURSIVE Join(_, _)
Join(list, sep) ==
    IF list = <<>> THEN <<>>
    ELSE IF Len(list) = 1 THEN <<list[1]>>
    ELSE <<list[1], sep>> \o Join(Tail(list), sep)

SlicesContains(list, x) == \E i \in 1..Len(list) : list[i] = x

\* isOriginAllowed
isOriginAllowed(origin, allowedOrigins) ==
    IF Len(allowedOrigins) = 0 THEN TRUE
    ELSE IF SlicesContains(allowedOrigins, origin) THEN TRUE
    ELSE SlicesContains(allowedOrigins, "*")

\* handleCORSPreflight without its test that the Origin header is present.
handleCORSPreflight_AnyOrigin(origin, allowedOrigins) ==
    IF isOriginAllowed(origin, allowedOrigins)
    THEN [status |-> StatusNoContent, body |-> "",
          headers |-> [NoHeaders EXCEPT
              !["Access-Control-Allow-Origin"] = <<origin>>,
              !["Access-Control-Allow-Credentials"] = <<"true">>,
              !["Access-Control-Allow-Methods"] = <<"GET, POST, PUT, DELETE, OPTIONS">>,
              !["Access-Control-Allow-Headers"] =
                  <<"Content-Type, Authorization, X-Requested-With">>,
              !["Access-Control-Max-Age"] = <<"3600">>]]
    ELSE [status |-> StatusForbidden, body |-> "", headers |-> NoHeaders]

\* handleCORSPreflight: the response to an OPTIONS request.
handleCORSPreflight(origin, allowedOrigins) ==
    IF origin # "" /\ isOriginAllowed(origin, allowedOrigins)
    THEN [status |-> StatusNoContent, body |-> "",
          headers |-> [NoHeaders EXCEPT
              !["Access-Control-Allow-Origin"] = <<origin>>,
              !["Access-Control-Allow-Credentials"] = <<"true">>,
              !["Access-Control-Allow-Methods"] = <<"GET, POST, PUT, DELETE, OPTIONS">>,
              !["Access-Control-Allow-Headers"] =
                  <<"Content-Type, Authorization, X-Requested-With">>,
              !["Access-Control-Max-Age"] = <<"3600">>]]
    ELSE [status |-> StatusForbidden, body |-> "", headers |-> NoHeaders]

\* The secret test with the comparison against config.Secret left out.
ValidateSecret_NonEmpty(cfg, secret) ==
    IF cfg.skip THEN "ok"
    ELSE IF secret = "" THEN "missing"
    ELSE "ok"

\* The secret test of the middleware: "ok" lets the request proceed.
ValidateSecret(cfg, secret) ==
    IF cfg.skip THEN "ok"
    ELSE IF secret = "" THEN "missing"
    ELSE IF secret # cfg.secret THEN "invalid"
    ELSE "ok"

\* setCORSHeaders answering a wildcard or empty allow-list with a literal '*'.
setCORSHeaders_Literal(headers, origin, allowedOrigins) ==
    IF origin # "" /\ isOriginAllowed(origin, allowedOrigins)
    THEN [headers EXCEPT
              !["Access-Control-Allow-Origin"] = IF SlicesContains(allowedOrigins, origin)
                        THEN <<origin>> ELSE <<"*">>,
              !["Access-Control-Allow-Credentials"] = <<"true">>,
              !["Access-Control-Expose-Headers"] = <<"Content-Length, Content-Type">>]
    ELSE headers

\* setCORSHeaders
setCORSHeaders(headers, origin, allowedOrigins) ==
    IF origin # "" /\ isOriginAllowed(origin, allowedOrigins)
    THEN [headers EXCEPT !["Access-Control-Allow-Origin"] = <<origin>>,
                         !["Access-Control-Allow-Credentials"] = <<"true">>,
                         !["Access-Control-Expose-Headers"] = <<"Content-Length, Content-Type">>]
    ELSE headers

\* setIframeHeaders naming only the first allowed origin.
setIframeHeaders_FirstOnly(headers, allowedOrigins) ==
    IF Len(allowedOrigins) = 0
    THEN [headers EXCEPT !["Content-Security-Policy"] = <<"frame-ancestors ", "*">>]
    ELSE IF SlicesContains(allowedOrigins, "*")
    THEN [headers EXCEPT !["Content-Security-Policy"] = <<"frame-ancestors ", "*">>]
    ELSE [headers EXCEPT !["Content-Security-Policy"] = <<"frame-ancestors ", allowedOrigins[1]>>]

\* setIframeHeaders
setIframeHeaders(headers, allowedOrigins) ==
    IF Len(allowedOrigins) = 0
    THEN [headers EXCEPT !["Content-Security-Policy"] = <<"frame-ancestors ", "*">>]
    ELSE IF SlicesContains(allowedOrigins, "*")
    THEN [headers EXCEPT !["Content-Security-Policy"] = <<"frame-ancestors ", "*">>]
    ELSE [headers EXCEPT !["Content-Security-Policy"] =
                             <<"frame-ancestors ">> \o Join(allowedOrigins, " ")]

Unauthorized(message) ==
    [status |-> StatusUnauthorized, body |-> message, headers |-> NoHeaders]

\* The handler EditingSecurityMiddleware(config) returns, on one request.
EditingSecurityHandle ==
    /\ es_pc = "arrived"
    /\ LET origin == es_req.origin
           verdict == ValidateSecret(es_config, es_req.secret) IN
       IF es_req.method = "OPTIONS"
       THEN /\ es_resp' = handleCORSPreflight(origin, es_config.allowedOrigins)
            /\ es_pc' = "answered"
       ELSE IF verdict = "missing"
       THEN /\ es_resp' = Unauthorized("Unauthorized: editing secret is required")
            /\ es_pc' = "answered"
       ELSE IF verdict = "invalid"
       THEN /\ es_resp' = Unauthorized("Unauthorized: invalid editing secret")
            /\ es_pc' = "answered"
       ELSE /\ es_resp' = [es_resp EXCEPT !.headers =
                              setIframeHeaders(
                                  setCORSHeaders(es_resp.headers, origin,
                                                 es_config.allowedOrigins),
                                  es_config.allowedOrigins)]
            /\ es_pc' = "handler"
    /\ UNCHANGED <<es_config, es_req>>
    /\ UNCHANGED <<gqVars, chVars, rqVars, rdVars, pcVars, hnVars>>

EsConfigs(secrets, lists, skips) ==
    [secret : secrets, allowedOrigins : lists, skip : skips]
EsRequests(methods, origins, secrets) ==
    [method : methods, origin : origins, secret : secrets]
EmptyResponse == [status |-> 0, body |-> "", headers |-> NoHeaders]

EsIdle ==
    /\ es_config \in EsConfigs({""}, {<<>>}, {FALSE})
    /\ es_req \in EsRequests({"GET"}, {""}, {""})
    /\ es_resp = EmptyResponse
    /\ es_pc = "idle"

(***************************************************************************)
(* client: the path codec (site marker and personalization marker)         *)
(***************************************************************************)
MaxCodecCalls == 3

PERSONALIZE_PREFIX == <<"_", "v", "a", "r", "i", "a", "n", "t", "I", "d", "_">>

\* strings.Join(parts, "/")
RECURSIVE JoinPath(_)
JoinPath(parts) ==
    IF parts = <<>> THEN Empty
    ELSE IF Len(parts) = 1 THEN parts[1]
    ELSE parts[1] \o Slash \o JoinPath(Tail(parts))

\* strings.ReplaceAll(s, "//", "/"): left to right, matches do not overlap.
RECURSIVE CollapseSlashes(_)
CollapseSlashes(s) ==
    IF Len(s) < 2 THEN s
    ELSE IF s[1] = "/" /\ s[2] = "/"
    THEN Slash \o CollapseSlashes(SubSeq(s, 3, Len(s)))
    ELSE <<s[1]>> \o CollapseSlashes(Tail(s))

\* The leading-slash step of the encoders and of parsePath on a string.
EnsureLeadingSlash(path) == IF HasPrefix(path, Slash) THEN path ELSE Slash \o path

\* The decoding loop shared by GetSiteRewriteData and
\* GetPersonalizedRewriteData: the first segment that starts with the prefix
\* is cut out; without one the path comes back with the fallback identifier.
DecodeMarker(path, prefix, fallback) ==
    LET parts == Split(path, "/")
        hits == {i \in 1..Len(parts) : HasPrefix(parts[i], prefix)} IN
    IF ~Contains(path, prefix) \/ hits = {}
    THEN [id |-> fallback, path |-> path]
    ELSE LET i == CHOOSE k \in hits : \A j \in hits : k <= j
             rest == SubSeq(parts, 1, i - 1) \o SubSeq(parts, i + 1, Len(parts)) IN
         [id |-> SubSeq(parts[i], Len(prefix) + 1, Len(parts[i])),
          path |-> CollapseSlashes(Slash \o JoinPath(rest))]

\* The filtering loop shared by NormalizeSiteRewrite and
\* NormalizePersonalizedRewrite: every segment that starts with the prefix goes.
RECURSIVE DropMarked(_, _)
DropMarked(parts, prefix) ==
    IF parts = <<>> THEN <<>>
    ELSE IF HasPrefix(Head(parts), prefix) THEN DropMarked(Tail(parts), prefix)
    ELSE <<Head(parts)>> \o DropMarked(Tail(parts), prefix)

StripMarker(path, prefix) ==
    IF ~Contains(path, prefix) THEN path
    ELSE CollapseSlashes(Slash \o JoinPath(DropMarked(Split(path, "/"), prefix)))

GetSiteRewriteData(path, defaultSite) == DecodeMarker(path, SITE_PREFIX, defaultSite)
NormalizeSiteRewrite(path) == StripMarker(path, SITE_PREFIX)
GetPersonalizedRewrite(path, variantId) ==
    Slash \o PERSONALIZE_PREFIX \o variantId \o EnsureLeadingSlash(path)
GetPersonalizedRewriteData(path) == DecodeMarker(path, PERSONALIZE_PREFIX, Empty)
NormalizePersonalizedRewrite(path) == StripMarker(path, PERSONALIZE_PREFIX)

\* SitecoreClient.ParsePath on a string: parsePath, then both markers removed.
ParsePath(path) ==
    NormalizePersonalizedRewrite(NormalizeSiteRewrite(EnsureLeadingSlash(path)))

\* SitecoreClient.GetSiteNameFromPath: the site decoded from the PARSED path.
GetSiteNameFromPath(path, defaultSite) ==
    GetSiteRewriteData(ParsePath(path), defaultSite).id

Call(op, arg, in, out, id) == [op |-> op, arg |-> arg, in |-> in, out |-> out, id |-> id]

CodecGetSiteRewrite ==
    /\ Len(pc_log) < MaxCodecCalls
    /\ \E s \in {<<"s">>, <<"s", "/", "t">>} :
         LET out == GetSiteRewrite(pc_path, s) IN
         /\ pc_path' = out
         /\ pc_log' = Append(pc_log, Call("GetSiteRewrite", s, pc_path, out, s))
    /\ UNCHANGED <<gqVars, chVars, rqVars, rdVars, esVars, hnVars>>

CodecGetPersonalizedRewrite ==
    /\ Len(pc_log) < MaxCodecCalls
    /\ \E v \in {<<"v">>, <<"w">>} :
         LET out == GetPersonalizedRewrite(pc_path, v) IN
         /\ pc_path' = out
         /\ pc_log' = Append(pc_log, Call("GetPersonalizedRewrite", v, pc_path, out, v))
    /\ UNCHANGED <<gqVars, chVars, rqVars, rdVars, esVars, hnVars>>

CodecGetSiteRewriteData ==
    /\ Len(pc_log) < MaxCodecCalls
    /\ \E d \in {<<"d">>} :
         LET r == GetSiteRewriteData(pc_path, d) IN
         /\ pc_path' = r.path
         /\ pc_log' = Append(pc_log, Call("GetSiteRewriteData", d, pc_path, r.path, r.id))
    /\ UNCHANGED <<gqVars, chVars, rqVars, rdVars, esVars, hnVars>>

CodecGetPersonalizedRewriteData ==
    /\ Len(pc_log) < MaxCodecCalls
    /\ LET r == GetPersonalizedRewriteData(pc_path) IN
         /\ pc_path' = r.path
         /\ pc_log' = Append(pc_log,
                Call("GetPersonalizedRewriteData", Empty, pc_path, r.path, r.id))
    /\ UNCHANGED <<gqVars, chVars, rqVars, rdVars, esVars, hnVars>>

CodecNormalizeSiteRewrite ==
    /\ Len(pc_log) < MaxCodecCalls
    /\ LET out == NormalizeSiteRewrite(pc_path) IN
         /\ pc_path' = out
         /\ pc_log' = Append(pc_log, Call("NormalizeSiteRewrite", Empty, pc_path, out, Empty))
    /\ UNCHANGED <<gqVars, chVars, rqVars, rdVars, esVars, hnVars>>

CodecNormalizePersonalizedRewrite ==
    /\ Len(pc_log) < MaxCodecCalls
    /\ LET out == NormalizePersonalizedRewrite(pc_path) IN
         /\ pc_path' = out
         /\ pc_log' = Append(pc_log,
                Call("NormalizePersonalizedRewrite", Empty, pc_path, out, Empty))
    /\ UNCHANGED <<gqVars, chVars, rqVars, rdVars, esVars, hnVars>>

\* client.GetSiteNameFromPath(path) on a client whose default site is d.
CodecGetSiteNameFromPath ==
    /\ Len(pc_log) < MaxCodecCalls
    /\ \E d \in {<<"d">>} :
         pc_log' = Append(pc_log, Call("GetSiteNameFromPath", d, pc_path, pc_path,
                                       GetSiteNameFromPath(pc_path, d)))
    /\ UNCHANGED pc_path
    /\ UNCHANGED <<gqVars, chVars, rqVars, rdVars, esVars, hnVars>>

PcIdle ==
    /\ pc_path = Slash
    /\ pc_log = <<>>

(***************************************************************************)
(* middleware/healthcheck.go, handlers/catchall.go and the GetPage facade  *)
(***************************************************************************)
StatusOK == 200
StatusNotFound == 404
StatusInternalServerError == 500

\* Handle answering every path that starts with the configured path.
HealthcheckHandle_PrefixMatch ==
    /\ cx_chain # <<>>
    /\ Head(cx_chain) = "healthcheck"
    /\ IF HasPrefix(cx_path, hc_config.path)
       THEN /\ cx_resp' = [status |-> StatusOK, body |-> <<"json", hc_config.response>>]
            /\ cx_chain' = <<>>
       ELSE /\ cx_chain' = Tail(cx_chain)
            /\ UNCHANGED cx_resp
    /\ UNCHANGED <<sr_log, hc_config, ca_layout, ca_fetch, ca_err, rcVars>>
    /\ UNCHANGED <<ms_config, lc_config, rq_path, rq_query, rq_cookies, rq_headers,
                   cx_path, cx_bag, cx_setCookies>>
    /\ UNCHANGED <<gqVars, chVars, rdVars, esVars, pcVars>>

\* HealthcheckMiddleware.Handle: ctx.JSON(200, m.config.Response) without next
\* when ctx.Path() == m.config.Path, else next(ctx).
HealthcheckHandle ==
    /\ cx_chain # <<>>
    /\ Head(cx_chain) = "healthcheck"
    /\ IF cx_path = hc_config.path
       THEN /\ cx_resp' = [status |-> StatusOK, body |-> <<"json", hc_config.response>>]
            /\ cx_chain' = <<>>
       ELSE /\ cx_chain' = Tail(cx_chain)
            /\ UNCHANGED cx_resp
    /\ UNCHANGED <<sr_log, hc_config, ca_layout, ca_fetch, ca_err, rcVars>>
    /\ UNCHANGED <<ms_config, lc_config, rq_path, rq_query, rq_cookies, rq_headers,
                   cx_path, cx_bag, cx_setCookies>>
    /\ UNCHANGED <<gqVars, chVars, rdVars, esVars, pcVars>>

\* GetPage with the not-found condition wrapped like a fetch failure.
GetPage_WrapNotFound(path, site, locale, layout) ==
    LET normalizedPath ==
            NormalizePersonalizedRewrite(NormalizeSiteRewrite(EnsureLeadingSlash(path)))
        siteData == GetSiteRewriteData(normalizedPath, <<"d", "e", "f", "a", "u", "l", "t">>)
        s == IF site = Empty THEN siteData.id ELSE site
        p == IF site = Empty THEN siteData.path ELSE normalizedPath IN
    [fetch |-> [path |-> p, site |-> s, locale |-> locale],
     err |-> IF layout = "route" THEN NoErr
             ELSE [type |-> "wrapped", cause |-> layout]]

\* SitecoreClient.GetPage for a string path and a non-nil locale: ParsePath,
\* the site taken from the path only when options.Site is empty, the layout
\* fetch, and the error: a wrapped fetch error, a *models.NotFoundError
\* when the layout has no route, or nil.
GetPage(path, site, locale, layout) ==
    LET normalizedPath ==
            NormalizePersonalizedRewrite(NormalizeSiteRewrite(EnsureLeadingSlash(path)))
        siteData == GetSiteRewriteData(normalizedPath, <<"d", "e", "f", "a", "u", "l", "t">>)
        s == IF site = Empty THEN siteData.id ELSE site
        p == IF site = Empty THEN siteData.path ELSE normalizedPath IN
    [fetch |-> [path |-> p, site |-> s, locale |-> locale],
     err |-> IF layout = "error" THEN [type |-> "wrapped", cause |-> layout]
             ELSE IF layout = "noRoute"
             THEN [type |-> "NotFoundError", path |-> path, site |-> s]
             ELSE NoErr]

\* CatchAllHandler.Handle: path, site ("" when unset) and locale ("en" when
\* unset) from the context, GetPage, and the answer by the type of the error.
CatchAllHandle ==
    /\ cx_chain # <<>>
    /\ Head(cx_chain) = "catchall"
    /\ LET site == IF cx_bag[SiteKey] # Null THEN cx_bag[SiteKey] ELSE Empty
           locale == IF cx_bag[LocaleKey] # Null THEN cx_bag[LocaleKey] ELSE <<"e", "n">>
           r == GetPage(cx_path, site, locale, ca_layout) IN
         /\ ca_fetch' = Append(ca_fetch, r.fetch)
         /\ ca_err' = r.err
         /\ cx_resp' =
              IF r.err.type = "NotFoundError"
              THEN [status |-> StatusNotFound, body |-> <<"text", "Page not found">>]
              ELSE IF r.err # NoErr
              THEN [status |-> StatusInternalServerError,
                    body |-> <<"text", "Internal server error">>]
              ELSE [status |-> StatusOK, body |-> <<"json", "page">>]
    /\ cx_chain' = <<>>
    /\ UNCHANGED <<sr_log, hc_config, ca_layout, rcVars>>
    /\ UNCHANGED <<ms_config, lc_config, rq_path, rq_query, rq_cookies, rq_headers,
                   cx_path, cx_bag, cx_setCookies>>
    /\ UNCHANGED <<gqVars, chVars, rdVars, esVars, pcVars>>

\* client.GetPage(path, PageOptions{}) on a client with the default
\* configuration: the log keeps the path and the site of the layout fetch.
CodecGetPage ==
    /\ Len(pc_log) < MaxCodecCalls
    /\ LET r == GetPage(pc_path, Empty, <<"e", "n">>, "route") IN
         pc_log' = Append(pc_log, Call("GetPage", Empty, pc_path, r.fetch.path,
                                       r.fetch.site))
    /\ UNCHANGED pc_path
    /\ UNCHANGED <<gqVars, chVars, rqVars, rdVars, esVars, hnVars>>

(***************************************************************************)
(* middleware/redirects.go: Handle run by several goroutines at once       *)
(*                                                                         *)
(* m.redirects is a slice read and written without synchronisation.  Its   *)
(* pointer word and its length word are written one after the other, in an *)
(* order the build chooses, so a goroutine can read one word of the new     *)
(* header with the other word of the old one.                              *)
(***************************************************************************)
MaxRacers == 2

\* `if m.redirects == nil` of Handle: the pointer word is compared with nil.
RcCheck ==
    \E i \in 1..Len(rc_req) :
        /\ rc_pc[i] = "check"
        /\ rc_pc' = [rc_pc EXCEPT ![i] = IF rc_mem.ptr = 0 THEN "fetch" ELSE "match"]
        /\ UNCHANGED <<rc_req, rc_mem, rc_got, rc_out, rd_fetches>>
        /\ UNCHANGED <<rd_rules, rd_redirects, rd_failed, rd_handled, rd_resp, rd_match>>
        /\ UNCHANGED <<sr_log, hc_config, cx_resp, ca_layout, ca_fetch, ca_err>>
        /\ UNCHANGED <<gqVars, chVars, rqVars, esVars, pcVars>>

\* loadRedirects up to the return of FetchRedirects for the site of the
\* request: an error sends the request to next without rules; the service
\* holds rd_rules for site d and an empty list for every other site.
RcFetch ==
    \E i \in 1..Len(rc_req), ok \in BOOLEAN :
        /\ rc_pc[i] = "fetch"
        /\ rd_fetches' = Append(rd_fetches, rc_req[i].site)
        /\ IF ok
           THEN /\ rc_got' = [rc_got EXCEPT ![i] =
                                 [ok |-> TRUE,
                                  list |-> IF rc_req[i].site = <<"d">> THEN rd_rules
                                           ELSE <<>>]]
                /\ rc_pc' = [rc_pc EXCEPT ![i] = "store"]
                /\ UNCHANGED rc_out
           ELSE /\ rc_out' = [rc_out EXCEPT ![i] =
                                 [kind |-> "loadFailed", read |-> <<>>, target |-> Empty]]
                /\ rc_pc' = [rc_pc EXCEPT ![i] = "done"]
                /\ UNCHANGED rc_got
        /\ UNCHANGED <<rc_req, rc_mem>>
        /\ UNCHANGED <<rd_rules, rd_redirects, rd_failed, rd_handled, rd_resp, rd_match>>
        /\ UNCHANGED <<sr_log, hc_config, cx_resp, ca_layout, ca_fetch, ca_err>>
        /\ UNCHANGED <<gqVars, chVars, rqVars, esVars, pcVars>>

\* `m.redirects = redirects` of loadRedirects: one word, then the other.
RcStore ==
    \E i \in 1..Len(rc_req) :
        /\ \/ /\ rc_pc[i] \in {"store", "storePtr"}
              /\ rc_mem' = [rc_mem EXCEPT !.ptr = i]
              /\ rc_pc' = [rc_pc EXCEPT ![i] =
                               IF rc_pc[i] = "store" THEN "storeLen" ELSE "match"]
           \/ /\ rc_pc[i] \in {"store", "storeLen"}
              /\ rc_mem' = [rc_mem EXCEPT !.len = Len(rc_got[i].list)]
              /\ rc_pc' = [rc_pc EXCEPT ![i] =
                               IF rc_pc[i] = "store" THEN "storePtr" ELSE "match"]
        /\ UNCHANGED <<rc_req, rc_got, rc_out, rd_fetches>>
        /\ UNCHANGED <<rd_rules, rd_redirects, rd_failed, rd_handled, rd_resp, rd_match>>
        /\ UNCHANGED <<sr_log, hc_config, cx_resp, ca_layout, ca_fetch, ca_err>>
        /\ UNCHANGED <<gqVars, chVars, rqVars, esVars, pcVars>>

\* GetRedirect(path, m.redirects) and the switch of Handle: the header is
\* read as it is now; a length beyond the array reads past its end.
RcMatch ==
    \E i \in 1..Len(rc_req) :
        /\ rc_pc[i] = "match"
        /\ LET array == rc_got[rc_mem.ptr].list
               read == SubSeq(array, 1, rc_mem.len)
               r == GetRedirect(rc_req[i].path, read) IN
           rc_out' = [rc_out EXCEPT ![i] =
                         IF rc_mem.len > Len(array)
                         THEN [kind |-> "fault", read |-> <<>>, target |-> Empty]
                         ELSE IF r.found
                         THEN [kind |-> "redirect", read |-> read, target |-> r.rule.target]
                         ELSE [kind |-> "next", read |-> read, target |-> Empty]]
        /\ rc_pc' = [rc_pc EXCEPT ![i] = "done"]
        /\ UNCHANGED <<rc_req, rc_mem, rc_got, rd_fetches>>
        /\ UNCHANGED <<rd_rules, rd_redirects, rd_failed, rd_handled, rd_resp, rd_match>>
        /\ UNCHANGED <<sr_log, hc_config, cx_resp, ca_layout, ca_fetch, ca_err>>
        /\ UNCHANGED <<gqVars, chVars, rqVars, esVars, pcVars>>

\* No concurrent request.
RcIdle ==
    /\ rc_req = <<>>
    /\ rc_mem = [ptr |-> 0, len |-> 0]
    /\ rc_pc = <<>>
    /\ rc_got = <<>>
    /\ rc_out = <<>>

\* No resolver call and no handler response.
HnIdle ==
    /\ sr_log = <<>>
    /\ hc_config = [path |-> Empty, response |-> ""]
    /\ cx_resp = [status |-> 0, body |-> <<>>]
    /\ ca_layout = "route"
    /\ ca_fetch = <<>>
    /\ ca_err = NoErr

ExIdle == RdIdle /\ EsIdle /\ PcIdle /\ HnIdle /\ RcIdle

(***************************************************************************)
(* Requests and configurations                                             *)
(***************************************************************************)
Site(n, h) == [name |-> n, hostName |-> h]
SitesMixed == <<Site(<<"b">>, <<"*", ".", "b", ".", "c">>),
                Site(<<"a">>, <<"a", ".", "c">>),
                Site(<<"x">>, <<"W", ".", "b", ".", "c">>)>>

SiteCookies == {NoCookie, CookieOf(Empty), CookieOf(<<"k">>)}

SupportedAll == <<<<"e", "n">>, <<"F", "R">>, <<"d", "e">>, <<"e", "s">>,
                  <<"i", "t">>, <<"p", "t">>>>
SupportedLists == {<<>>, SupportedAll}

MsConfigs(enabled, useCookie, lists) ==
    [enabled : enabled, useCookie : useCookie, sites : lists,
     defaultSite : {Site(<<"d">>, <<"d", ".", "c">>)}]
LcConfigs(lists, useAL) ==
    [defaultLanguage : {<<"e", "n">>}, supported : lists,
     useAcceptLanguage : useAL]
Query(site, lang, locale) ==
    {[site |-> s, sc_lang |-> l, locale |-> o] : s \in site, l \in lang, o \in locale}
Cookies(site, locale) ==
    {[n \in {SiteCookieName, LocaleCookieName} |->
         IF n = SiteCookieName THEN s ELSE l] : s \in site, l \in locale}
Headers(host, xfh, al) ==
    {[n \in {"Host", "X-Forwarded-Host", "Accept-Language"} |->
         IF n = "Host" THEN h ELSE IF n = "X-Forwarded-Host" THEN x ELSE a] :
     h \in host, x \in xfh, a \in al}

\* A fresh context: NewEchoContext makes an empty bag, nothing is written yet.
FreshContext(chain) ==
    /\ cx_path = rq_path
    /\ cx_bag = [k \in BagKeys |-> Null]
    /\ cx_setCookies = <<>>
    /\ cx_chain = chain

RqIdle ==
    /\ ms_config \in MsConfigs({FALSE}, {FALSE}, {<<>>})
    /\ lc_config \in LcConfigs({<<>>}, {FALSE})
    /\ rq_query \in Query({Empty}, {Empty}, {Empty})
    /\ rq_cookies \in Cookies({NoCookie}, {NoCookie})
    /\ rq_headers \in Headers({Empty}, {Empty}, {Empty})
    /\ rq_path = Slash
    /\ FreshContext(<<>>)

\* Requests to a multisite middleware followed by the terminal handler.
InitMultisite ==
    /\ GqIdle /\ ChIdle /\ ExIdle
    /\ ms_config \in MsConfigs(BOOLEAN, BOOLEAN,
                                {SitesMixed, <<Site(Empty, <<"a", ".", "c">>)>>, <<>>})
    /\ lc_config \in LcConfigs({<<>>}, {FALSE})
    /\ rq_query \in Query({Empty, <<"q">>, <<"A">>}, {Empty}, {Empty})
    /\ rq_cookies \in Cookies(SiteCookies, {NoCookie})
    /\ rq_headers \in Headers(
            {<<"a", ".", "c">>, <<"A", ".", "c", ":", "8">>, <<"w", ".", "b", ".", "c">>,
            <<"b", ".", "c">>, <<"z", ".", "c">>}, {Empty, <<"a", ".", "c", ":", "8">>}, {Empty})
    /\ rq_path \in {<<"/">>, <<"/", "p">>, <<"/", "f", "r", "/", "p">>}
    /\ FreshContext(<<"multisite", "terminal">>)

SpecMultisite == InitMultisite /\ [][MultisiteHandle]_vars

\* Requests to a locale middleware followed by the terminal handler.
InitLocale ==
    /\ GqIdle /\ ChIdle /\ ExIdle
    /\ ms_config \in MsConfigs({FALSE}, {FALSE}, {<<>>})
    /\ lc_config \in LcConfigs(SupportedLists, BOOLEAN)
    /\ rq_query \in Query({Empty}, {Empty, <<"d", "e">>, <<"z", "z">>}, {Empty, <<"e", "s">>})
    /\ rq_cookies \in Cookies({NoCookie},
            {NoCookie, CookieOf(Empty), CookieOf(<<"i", "t">>),
            CookieOf(<<"z", "z">>)})
    /\ rq_headers \in Headers({<<"a", ".", "c">>}, {Empty},
            {Empty, <<"p", "t">>, <<"z", "z">>, <<"p", "t", "-", "B", "R">>,
            <<"z", "z", ",", " ", "p", "t", ";", "q", "=", "0", ".", "9">>,
            <<"d", "e", ";", "q", "=", "0", ".", "1", ",", "p", "t", ";", "q", "=", "0", ".", "9">>,
            <<"z", "z", "-", "Z", "Z", ",", " ", "e", "s", "-", "M", "X", ";", "q", "=", "0", ".", "5", ",", "i", "t">>})
    /\ rq_path \in
            {<<"/">>, <<"/", "p">>, <<"/", "f", "r", "/", "p">>,
            <<"/", "z", "z", "/", "p">>, <<"/", "f", "r", "-", "C", "A", "/", "p">>}
    /\ FreshContext(<<"locale", "terminal">>)

SpecLocale == InitLocale /\ [][LocaleHandle]_vars

\* Requests to the chain multisite -> locale -> terminal handler.
InitResolve ==
    /\ GqIdle /\ ChIdle /\ ExIdle
    /\ ms_config \in MsConfigs(BOOLEAN, BOOLEAN, {SitesMixed, <<>>})
    /\ lc_config \in LcConfigs(SupportedLists, BOOLEAN)
    /\ rq_query \in Query({Empty, <<"q">>}, {Empty, <<"d", "e">>}, {Empty})
    /\ rq_cookies \in Cookies(SiteCookies, {NoCookie, CookieOf(Empty),
                                             CookieOf(<<"i", "t">>)})
    /\ rq_headers \in Headers({<<"a", ".", "c">>, <<"z", ".", "c">>}, {Empty},
                              {Empty, <<"p", "t">>})
    /\ rq_path \in {<<"/", "p">>, <<"/", "f", "r", "/", "p">>}
    /\ FreshContext(<<"multisite", "locale", "terminal">>)

NextResolve ==
    \/ MultisiteHandle
    \/ LocaleHandle

SpecResolve == InitResolve /\ [][NextResolve]_vars

\* One RedirectsMiddleware instance and the requests it is given in turn.
InitRedirects ==
    /\ GqIdle /\ ChIdle /\ RqIdle /\ EsIdle /\ PcIdle /\ HnIdle /\ RcIdle
    /\ RdNew(
            {RulesRegexFirst, RulesRegexOnly,
            <<Rule(<<"/", "a">>, <<"/", "1">>, "301", FALSE),
            Rule(<<"/", "b">>, <<"/", "2">>, "SERVER_TRANSFER", FALSE)>>, <<>>})

NextRedirects ==
    \/ RedirectsRequest
    \/ RedirectsHandle

SpecRedirects == InitRedirects /\ [][NextRedirects]_vars

\* One request to a route behind the editing security gate.
InitEditing ==
    /\ GqIdle /\ ChIdle /\ RqIdle /\ RdIdle /\ PcIdle /\ HnIdle /\ RcIdle
    /\ es_config \in EsConfigs({"s3cret", ""},
            {<<>>, <<"https://a.com">>, <<"https://a.com", "https://c.com">>, <<"*">>,
            <<"https://c.com", "*">>}, BOOLEAN)
    /\ es_req \in EsRequests({"GET", "POST", "OPTIONS"},
                              {"", "https://a.com", "https://b.com"},
                              {"", "s3cret", "wrong"})
    /\ es_resp = EmptyResponse
    /\ es_pc = "arrived"

SpecEditing == InitEditing /\ [][EditingSecurityHandle]_vars

\* A path taken through the encoders and decoders of the codec.
InitCodec ==
    /\ GqIdle /\ ChIdle /\ RqIdle /\ RdIdle /\ EsIdle /\ HnIdle /\ RcIdle
    /\ pc_path \in
            {<<"/">>, <<"/", "p">>, <<"p">>, <<"/", "p", "/">>, <<"/", "a", "/", "/", "b">>,
            <<"/", "a", "_", "s", "i", "t", "e", "_", "/", "/", "c">>,
            <<"/", "_", "s", "i", "t", "e", "_", "x", "/">>}
    /\ pc_log = <<>>

NextCodec ==
    \/ CodecGetSiteRewrite
    \/ CodecGetPersonalizedRewrite
    \/ CodecGetSiteRewriteData
    \/ CodecGetPersonalizedRewriteData
    \/ CodecNormalizeSiteRewrite
    \/ CodecNormalizePersonalizedRewrite
    \/ CodecGetSiteNameFromPath
    \/ CodecGetPage

SpecCodec == InitCodec /\ [][NextCodec]_vars

\* Lookups by name in resolvers built from different site lists.
InitSiteResolver ==
    /\ GqIdle /\ ChIdle /\ ExIdle
    /\ ms_config \in MsConfigs({TRUE}, {FALSE},
            {SitesMixed, <<>>,
             <<Site(<<"A">>, <<"a", ".", "c">>), Site(<<"a">>, <<"x", ".", "c">>),
               Site(<<"D">>, <<"q", ".", "c">>)>>})
    /\ lc_config \in LcConfigs({<<>>}, {FALSE})
    /\ rq_query \in Query({Empty}, {Empty}, {Empty})
    /\ rq_cookies \in Cookies({NoCookie}, {NoCookie})
    /\ rq_headers \in Headers({Empty}, {Empty}, {Empty})
    /\ rq_path = Slash
    /\ FreshContext(<<>>)

SpecSiteResolver == InitSiteResolver /\ [][SrGetByName]_vars

\* Requests to the chain healthcheck -> multisite -> locale -> redirects
\* -> catch-all handler of a server.
InitServe ==
    /\ GqIdle /\ ChIdle /\ EsIdle /\ PcIdle
    /\ RdNew({<<>>, <<Rule(<<"/", "a">>, <<"/", "1">>, "301", FALSE)>>})
    /\ ms_config \in MsConfigs(BOOLEAN, {FALSE}, {SitesMixed})
    /\ lc_config \in LcConfigs(SupportedLists, {FALSE})
    /\ rq_query \in Query({Empty, <<"a", "c", "m", "e">>}, {Empty}, {Empty})
    /\ rq_cookies \in Cookies({NoCookie}, {NoCookie})
    /\ rq_headers \in Headers({<<"a", ".", "c">>}, {Empty}, {Empty})
    /\ rq_path \in {<<"/", "h", "e", "a", "l", "t", "h", "z">>, <<"/", "h", "e", "a", "l", "t", "h", "z", "/">>, <<"/", "H", "e", "a", "l", "t", "h", "z">>, <<"/", "a">>,
                     <<"/", "f", "r", "/", "p", "r", "o", "d", "u", "c", "t", "s">>, <<"/", "_", "s", "i", "t", "e", "_", "x", "/", "p">>}
    /\ FreshContext(<<"healthcheck", "multisite", "locale", "redirects", "catchall">>)
    /\ sr_log = <<>>
    /\ hc_config \in [path : {<<"/", "h", "e", "a", "l", "t", "h", "z">>}, response : {"ok", "healthy"}]
    /\ cx_resp = [status |-> 0, body |-> <<>>]
    /\ ca_layout \in {"error", "noRoute", "route"}
    /\ ca_fetch = <<>>
    /\ ca_err = NoErr
    /\ RcIdle

SpecServe ==
    InitServe /\ [][HealthcheckHandle \/ MultisiteHandle \/ LocaleHandle
                        \/ RedirectsHandle \/ CatchAllHandle]_vars

\* First requests that reach one RedirectsMiddleware at the same time.
InitRace ==
    /\ GqIdle /\ ChIdle /\ RqIdle /\ EsIdle /\ PcIdle /\ HnIdle
    /\ RdNew({<<Rule(<<"/", "a">>, <<"/", "1">>, "301", FALSE)>>,
              <<Rule(<<"/", "a">>, <<"/", "1">>, "301", FALSE),
                Rule(<<"/", "b">>, <<"/", "2">>, "302", FALSE)>>})
    /\ rc_req \in [1..MaxRacers -> [site : {<<"d">>, <<"e">>},
                                     path : {<<"/", "a">>, <<"/", "b">>}]]
    /\ rc_mem = [ptr |-> 0, len |-> 0]
    /\ rc_pc = [i \in 1..MaxRacers |-> "check"]
    /\ rc_got = [i \in 1..MaxRacers |-> [ok |-> FALSE, list |-> <<>>]]
    /\ rc_out = [i \in 1..MaxRacers |-> [kind |-> "none", read |-> <<>>, target |-> Empty]]

SpecRace == InitRace /\ [][RcCheck \/ RcFetch \/ RcStore \/ RcMatch]_vars

InitGraphQL == GqInit /\ ChIdle /\ RqIdle /\ ExIdle

InitChain == GqIdle /\ ChInit /\ RqIdle /\ ExIdle

SpecChain == InitChain /\ [][ChNext]_vars

\* Requests dispatched by Echo to adapted middleware, one after another.
InitAdapter == GqIdle /\ ChIdle /\ RqIdle /\ ExIdle

SpecAdapter ==
    InitAdapter /\ [][EcRequest \/ EcSet \/ EcGet \/ EcSetPath \/ EcPath \/ EcNext
                        \/ EcReturn]_vars

SpecGraphQL == InitGraphQL /\ [][GqNext]_vars

\* Calls of clients that differ in endpoint, API key and custom headers.
InitApiKey ==
    /\ ChIdle /\ RqIdle /\ ExIdle
    /\ gq_retries = 2
    /\ gq_timeout \in {0, 1}
    /\ gq_callerDl = FALSE
    /\ gq_pc = "idle"
    /\ gq_attempt = 0
    /\ gq_outcomes = <<>>
    /\ gq_ctxAtCall = <<>>
    /\ gq_resp = [kind |-> "none", data |-> Nil, errors |-> <<>>]
    /\ gq_ctxErr = "none"
    /\ gq_timer = FALSE
    /\ gq_doneAt = NotDone
    /\ gq_lastErr = NoErr
    /\ gq_data = Nil
    /\ gq_err = NoErr
    /\ gq_endpoint \in
            {<<"h", "/", "g">>,
             <<"h", "/", "g", "?", "s", "i", "t", "e", "c", "o", "r", "e", "C", "o", "n", "t", "e", "x", "t", "I", "d", "=", "x">>,
             <<"h", "/", "g", "?", "s", "i", "t", "e", "c", "o", "r", "e", "c", "o", "n", "t", "e", "x", "t", "i", "d", "=", "x">>}
    /\ gq_apiKey \in {"", "k"}
    /\ gq_headers \in {<<>>, <<[name |-> "X-Trace", value |-> "t"]>>,
                        <<[name |-> "sc_apikey", value |-> "c"]>>}
    /\ gq_sent = <<>>
    /\ gq_retryDelay = DefaultRetryDelay
    /\ gq_waits = <<>>

SpecApiKey == InitApiKey /\ [][GqNext]_vars

\* Calls of Request on clients configured with different base delays: none,
\* one nanosecond, the default second, 2^61 ns and 2^62 ns.
InitBackoff ==
    /\ ChIdle /\ RqIdle /\ ExIdle
    /\ gq_retries \in 0..MaxRetries
    /\ gq_timeout \in {0, 1}
    /\ gq_callerDl = FALSE
    /\ gq_pc = "idle"
    /\ gq_attempt = 0
    /\ gq_outcomes = <<>>
    /\ gq_ctxAtCall = <<>>
    /\ gq_resp = [kind |-> "none", data |-> Nil, errors |-> <<>>]
    /\ gq_ctxErr = "none"
    /\ gq_timer = FALSE
    /\ gq_doneAt = NotDone
    /\ gq_lastErr = NoErr
    /\ gq_data = Nil
    /\ gq_err = NoErr
    /\ gq_endpoint = <<"h", "/", "g">>
    /\ gq_apiKey = "k"
    /\ gq_headers = <<>>
    /\ gq_sent = <<>>
    /\ gq_retryDelay \in {{}, {0}, DefaultRetryDelay, {DurationBits - 3},
                           {DurationBits - 2}}
    /\ gq_waits = <<>>

SpecBackoff == InitBackoff /\ [][GqNext]_vars

\* The timer of a backoff fires, a select with a ready case proceeds, and the
\* HTTP client (which carries a timeout) returns from every call.
FairSpecGraphQL ==
    /\ SpecGraphQL
    /\ WF_vars(GqRequest)
    /\ WF_vars(GqTimerFire)
    /\ WF_vars(GqSelectTimer \/ GqSelectDone)
    /\ WF_vars(GqSend)
    /\ WF_vars(GqReceive)

(***************************************************************************)
(* Claims about the GraphQL client                                         *)
(***************************************************************************)
Last(s) == s[Len(s)]
Failed(o) == o # "ok"
RetryableOutcome(o) == o \notin {"ok", "gqlValidation"}

\* C1: an attempt that succeeds is the last attempt of the call, and the call
\* returns that attempt's data with a nil error: with the first k-1 attempts
\* failing and the k-th succeeding exactly k attempts are made.
C1_RetryThenSuccess ==
    \A k \in 1..Len(gq_outcomes) :
        gq_outcomes[k] = "ok" =>
            /\ k = Len(gq_outcomes)
            /\ k <= gq_retries + 1
            /\ \A j \in 1..(k - 1) : Failed(gq_outcomes[j])
            /\ gq_pc = "done"
            /\ gq_err = NoErr
            /\ gq_data = gq_resp.data

\* 503, 503, 200 with Retries = 3: success after exactly three attempts.
C1_Witness ==
    /\ gq_pc = "done"
    /\ gq_retries = 3
    /\ gq_ctxErr = "none"
    /\ gq_outcomes = <<"status", "status", "ok">>
    /\ gq_data = "d1"
    /\ gq_err = NoErr

C2_Bound ==
    /\ Len(gq_outcomes) <= gq_retries + 1
    /\ (gq_pc = "done" /\ gq_ctxErr = "none"
          /\ \A k \in 1..Len(gq_outcomes) : RetryableOutcome(gq_outcomes[k]))
       => (Len(gq_outcomes) = gq_retries + 1 /\ gq_err.type = "failedAfter"
             /\ gq_data = Nil)

\* C2: every call terminates, after at most Retries + 1 attempts; when every
\* attempt fails with a retryable error and the context is never done the
\* call makes exactly Retries + 1 attempts and returns an error.
C2_TerminatesWithinRetries == []C2_Bound /\ <>(gq_pc = "done")

C2_Witness ==
    /\ gq_pc = "done"
    /\ gq_retries = 3
    /\ gq_ctxErr = "none"
    /\ gq_outcomes = <<"status", "transport", "gql", "status">>
    /\ gq_err.type = "failedAfter"

\* C3: no attempt follows an attempt that failed with a validation-class
\* error, while a transport error, a non-2xx status and a GraphQL-level error
\* are retried until the retry limit is exhausted.
C3_ValidationStopsRetries ==
    /\ \A k \in 1..Len(gq_outcomes) :
           gq_outcomes[k] = "gqlValidation" => k = Len(gq_outcomes)
    /\ (gq_pc = "done" /\ gq_ctxErr = "none" /\ gq_outcomes # <<>>
          /\ Last(gq_outcomes) \in {"transport", "status", "gql"})
       => Len(gq_outcomes) = gq_retries + 1

\* C4 as claimed: a context that becomes done during a backoff sleep ends
\* the call at once with the context's error and nil data, and no attempt but
\* the first starts with a context that is done.
C4_NoAttemptOnceDone ==
    /\ \A k \in 2..Len(gq_ctxAtCall) : gq_ctxAtCall[k] = "none"
    /\ (gq_pc = "done" /\ gq_doneAt.pc = "sleep")
       => /\ gq_err = CtxError(gq_ctxErr)
          /\ gq_data = Nil
          /\ Len(gq_outcomes) = gq_doneAt.n

C4_SelectStep ==
    (gq_pc = "sleep" /\ gq_ctxErr # "none" /\ ~gq_timer /\ gq_pc' # "sleep")
        => /\ gq_pc' = "done"
           /\ gq_err' = CtxError(gq_ctxErr)
           /\ gq_data' = Nil
           /\ gq_outcomes' = gq_outcomes

C4_LastAttemptOnly ==
    \A k \in 1..Len(gq_ctxAtCall) :
        gq_ctxAtCall[k] # "none" =>
            /\ k = Len(gq_ctxAtCall)
            /\ gq_pc = "done"
            /\ gq_outcomes[k] = "transport"
            /\ gq_data = Nil

\* C4 (amended): when the context is done during a backoff sleep and the
\* backoff timer is not ready, the select returns the context's error and
\* nil data without another attempt; an attempt that starts with a context
\* that is done is the last attempt of the call and fails.
C4_CancelDuringBackoff == []C4_LastAttemptOnly /\ [][C4_SelectStep]_vars

C4_Witness ==
    /\ gq_pc = "done"
    /\ Len(gq_outcomes) >= 1
    /\ gq_attempt = Len(gq_outcomes)
    /\ gq_ctxErr = "deadline"
    /\ ~gq_timer
    /\ gq_err = CtxError("deadline")
    /\ gq_data = Nil

\* C5: a call never returns data together with an error; an envelope with a
\* non-empty errors array fails with its first listed error and its data is
\* discarded; a context error comes with nil data.
C5_NoDataWithError ==
    /\ (gq_err # NoErr => gq_data = Nil)
    /\ (gq_pc = "done" /\ gq_resp.kind = "envelope" /\ Len(gq_resp.errors) > 0)
       => /\ gq_data = Nil
          /\ gq_lastErr = [type |-> "GraphQLError", id |-> gq_resp.errors[1]]
          /\ gq_err \in {FinalError(gq_retries, gq_lastErr), CtxError(gq_ctxErr)}

C5_Witness ==
    /\ gq_pc = "done"
    /\ gq_resp = [kind |-> "envelope", data |-> "d1", errors |-> <<"exec", "valid">>]
    /\ gq_err = FinalError(gq_retries, [type |-> "GraphQLError", id |-> "exec"])
    /\ gq_data = Nil

(***************************************************************************)
(* Claims about Chain                                                      *)
(***************************************************************************)
IsPrefix(s, t) == Len(s) <= Len(t) /\ \A i \in 1..Len(s) : s[i] = t[i]
InTrace(x) == \E i \in 1..Len(ch_trace) : ch_trace[i] = x

MultisiteRan == cx_bag[SiteKey] # Null
LocaleRan == cx_bag[LocaleKey] # Null

\* The name of the configured site that the request's host name matches,
\* exactly or through a wildcard, and Empty when no configured site matches.
HostMatchName ==
    GetByHost(ms_config.sites, Site(Empty, Empty), getHostname(rq_headers)).name

FirstNonEmpty(values) ==
    IF \E i \in 1..Len(values) : values[i] # Empty
    THEN values[CHOOSE i \in 1..Len(values) :
                    values[i] # Empty /\ \A j \in 1..(i - 1) : values[j] = Empty]
    ELSE Empty

\* C7 as claimed: the site in the context is the first non-empty of the site
\* query parameter, the site cookie, the host name match and the default
\* site, for every enabled configuration.
C7_SitePrecedence ==
    MultisiteRan =>
        cx_bag[SiteKey] = FirstNonEmpty(<<rq_query["site"],
                                          rq_cookies[SiteCookieName].value,
                                          HostMatchName,
                                          ms_config.defaultSite.name>>)

\* C7 (amended): the site in the context is the first non-empty of the site
\* query parameter, the site cookie when cookie resolution is enabled, the
\* host name match and the default site.
C7_SitePrecedenceCookieFlag ==
    MultisiteRan =>
        cx_bag[SiteKey] = FirstNonEmpty(<<rq_query["site"],
                                          IF ms_config.useCookie
                                          THEN rq_cookies[SiteCookieName].value
                                          ELSE Empty,
                                          HostMatchName,
                                          ms_config.defaultSite.name>>)

\* A cookie and a matching host name and no query parameter: the cookie wins.
C7_Witness ==
    /\ MultisiteRan
    /\ ms_config.useCookie
    /\ rq_query["site"] = Empty
    /\ rq_cookies[SiteCookieName] = CookieOf(<<"k">>)
    /\ HostMatchName = <<"a">>
    /\ cx_bag[SiteKey] = <<"k">>

\* C8: once the enabled multisite middleware resolved site s for path p, the
\* path read downstream is /_site_<s><p> and the bag holds original path p
\* and rewritten path /_site_<s><p>.
C8_PathRewritten ==
    MultisiteRan =>
        LET encoded == Slash \o SITE_PREFIX \o cx_bag[SiteKey] \o rq_path IN
        /\ cx_path = encoded
        /\ cx_bag[OriginalPathKey] = rq_path
        /\ cx_bag[RewritePathKey] = encoded

\* The tiers of the locale middleware in claimed order: the value of each and
\* whether it yields a supported locale.
LocaleTiers(headerTierOn) ==
    LET token == extractLocaleFromPath(rq_path)
        param == IF rq_query["sc_lang"] # Empty THEN rq_query["sc_lang"]
                 ELSE rq_query["locale"]
        cookie == rq_cookies[LocaleCookieName]
        header == parseAcceptLanguage(lc_config, rq_headers["Accept-Language"]) IN
    << [value |-> token, yields |-> token # Empty /\ isSupported(lc_config, token)],
       [value |-> param, yields |-> param # Empty /\ isSupported(lc_config, param)],
       [value |-> cookie.value,
        yields |-> cookie.present /\ isSupported(lc_config, cookie.value)],
       [value |-> header,
        yields |-> headerTierOn /\ header # Empty /\ isSupported(lc_config, header)],
       [value |-> lc_config.defaultLanguage, yields |-> TRUE] >>

FirstYield(tiers) ==
    tiers[CHOOSE i \in 1..Len(tiers) :
              tiers[i].yields /\ \A j \in 1..(i - 1) : ~tiers[j].yields].value

C10_ResolvedNonEmpty ==
    (cx_chain = <<"terminal">> /\ ms_config.enabled
        /\ ms_config.defaultSite.name # Empty /\ lc_config.defaultLanguage # Empty)
    => /\ cx_bag[LocaleKey] \notin {Null, Empty}
       /\ cx_bag[SiteKey] \notin {Null, Empty}

(***************************************************************************)
(* Redirects                                                               *)
(***************************************************************************)
\* The redirects middleware has finished with the current request.
RedirectsDone ==
    /\ rd_handled > 0
    /\ IF cx_chain = <<>> THEN TRUE ELSE Head(cx_chain) = "terminal"

IsExactRule(rule, path) ==
    ~rule.isRegex /\ rule.pattern = NormalizeRedirectPath(path)

IsRegexMatch(rule, path) ==
    /\ rule.isRegex
    /\ ~RegexError(rule.pattern)
    /\ MatchString(rule.pattern, NormalizeRedirectPath(path))

\* C11: GetRedirect returns a non-regex rule whose pattern equals the
\* normalized path whenever one exists, even when a regex rule that matches
\* the path too stands earlier in the list; it returns a regex rule only when
\* no exact rule matches; within each pass the rule returned is the first
\* matching rule in list order; with no matching rule it returns nil.
C11_ExactBeforeRegex ==
    rd_match.looked =>
        LET rules == rd_redirects.list
            N == Len(rules)
            anyExact == \E i \in 1..N : IsExactRule(rules[i], rq_path)
            anyRegex == \E i \in 1..N : IsRegexMatch(rules[i], rq_path) IN
        /\ anyExact =>
              /\ rd_match.found
              /\ \E i \in 1..N :
                    /\ IsExactRule(rules[i], rq_path)
                    /\ \A j \in 1..(i - 1) : ~IsExactRule(rules[j], rq_path)
                    /\ rd_match.rule = rules[i]
        /\ (~anyExact /\ anyRegex) =>
              /\ rd_match.found
              /\ \E i \in 1..N :
                    /\ IsRegexMatch(rules[i], rq_path)
                    /\ \A j \in 1..(i - 1) : ~IsRegexMatch(rules[j], rq_path)
                    /\ rd_match.rule = rules[i]
        /\ (~anyExact /\ ~anyRegex) => ~rd_match.found

\* An exact rule was returned although a matching regex rule precedes it and
\* a second exact rule with the same pattern follows it.
C11_Witness ==
    /\ rd_match.looked
    /\ rd_redirects.list = RulesRegexFirst
    /\ rq_path = <<" ", "/", "a", " ">>
    /\ IsRegexMatch(RulesRegexFirst[1], rq_path)
    /\ rd_match.found
    /\ rd_match.rule = RulesRegexFirst[2]

\* C12: over the requests one RedirectsMiddleware instance handles, the rule
\* list is fetched at most once, and once a load has failed no request is
\* matched against rules.
C12_FetchedAtMostOnce ==
    /\ Len(rd_fetches) <= 1
    /\ rd_failed => ~rd_match.looked

\* C13: when a rule matches, type 301 answers 301 with the target and does not
\* call next, type 302 answers 302 and does not call next, SERVER_TRANSFER
\* writes no response, sets the path to the target, stores the original and
\* the rewritten path in the bag and calls next, any other type acts as 302;
\* when no rule matches, next is called with path and bag unchanged.
C13_HandleStep ==
    (IF cx_chain = <<>> THEN FALSE ELSE Head(cx_chain) = "redirects") =>
        LET m == rd_match'
            r == m.rule
            nextCalled == cx_chain' = <<"terminal">> IN
        IF m.looked /\ m.found
        THEN CASE r.redirectType = "301" ->
                    /\ rd_resp' = [status |-> 301, location |-> r.target]
                    /\ ~nextCalled
               [] r.redirectType = "SERVER_TRANSFER" ->
                    /\ rd_resp' = NoResponse
                    /\ cx_path' = r.target
                    /\ cx_bag' = [cx_bag EXCEPT ![OriginalPathKey] = cx_path,
                                                ![RewritePathKey] = r.target]
                    /\ nextCalled
               [] OTHER ->
                    /\ rd_resp' = [status |-> 302, location |-> r.target]
                    /\ ~nextCalled
        ELSE /\ nextCalled
             /\ rd_resp' = NoResponse
             /\ cx_path' = cx_path
             /\ cx_bag' = cx_bag

C13_RedirectActions == [][C13_HandleStep]_vars

\* A rule of an unknown type matched and was answered with a 302.
C13_Witness ==
    /\ RedirectsDone
    /\ rd_match.found
    /\ rd_match.rule.redirectType = "307"
    /\ rd_resp = [status |-> 302, location |-> rd_match.rule.target]
    /\ cx_chain = <<>>

(***************************************************************************)
(* Path codec                                                              *)
(***************************************************************************)
NoSegmentWith(path, prefix) ==
    \A i \in 1..Len(Split(path, "/")) : ~HasPrefix(Split(path, "/")[i], prefix)

\* C14: for every path p and every site name s without '/', decoding the
\* site-encoded path gives SiteName = s and NormalizedPath = p with its
\* leading slash ensured, whatever the default site.
C14_SiteRoundTrip ==
    \A i \in 1..(Len(pc_log) - 1) :
        (/\ pc_log[i].op = "GetSiteRewrite"
         /\ ~Contains(pc_log[i].arg, Slash)
         /\ pc_log[i + 1].op = "GetSiteRewriteData")
        => /\ pc_log[i + 1].id = pc_log[i].arg
           /\ pc_log[i + 1].out = EnsureLeadingSlash(pc_log[i].in)

\* C15: for every path p and variant id v, decoding the variant-encoded path
\* gives VariantId = v and NormalizedPath = p with its leading slash ensured,
\* also when p carries a site marker; and when the site marker is added after
\* the variant marker, the variant decoder still gives v and leaves the
\* site-encoded path.
C15_VariantRoundTrip ==
    /\ \A i \in 1..(Len(pc_log) - 1) :
          (/\ pc_log[i].op = "GetPersonalizedRewrite"
           /\ pc_log[i + 1].op = "GetPersonalizedRewriteData")
          => /\ pc_log[i + 1].id = pc_log[i].arg
             /\ pc_log[i + 1].out = EnsureLeadingSlash(pc_log[i].in)
    /\ \A i \in 1..(Len(pc_log) - 2) :
          (/\ pc_log[i].op = "GetPersonalizedRewrite"
           /\ pc_log[i + 1].op = "GetSiteRewrite"
           /\ ~Contains(pc_log[i + 1].arg, Slash)
           /\ pc_log[i + 2].op = "GetPersonalizedRewriteData")
          => /\ pc_log[i + 2].id = pc_log[i].arg
             /\ pc_log[i + 2].out =
                    Slash \o SITE_PREFIX \o pc_log[i + 1].arg
                          \o EnsureLeadingSlash(pc_log[i].in)

\* C16: on an absolute path with no segment starting with the site (resp.
\* variant) prefix, GetSiteRewriteData and NormalizeSiteRewrite (resp.
\* GetPersonalizedRewriteData and NormalizePersonalizedRewrite) return the
\* path unchanged, with the default (resp. empty) identifier; and stripping
\* twice gives what stripping once gives.
C16_StripNoOpIdempotent ==
    /\ \A i \in 1..Len(pc_log) :
          LET c == pc_log[i] IN
          /\ (/\ c.op \in {"GetSiteRewriteData", "NormalizeSiteRewrite"}
              /\ HasPrefix(c.in, Slash)
              /\ NoSegmentWith(c.in, SITE_PREFIX))
             => c.out = c.in /\ c.id = c.arg
          /\ (/\ c.op \in {"GetPersonalizedRewriteData", "NormalizePersonalizedRewrite"}
              /\ HasPrefix(c.in, Slash)
              /\ NoSegmentWith(c.in, PERSONALIZE_PREFIX))
             => c.out = c.in /\ c.id = Empty
    /\ \A i \in 1..(Len(pc_log) - 1) :
          (/\ pc_log[i].op = pc_log[i + 1].op
           /\ pc_log[i].op \in {"NormalizeSiteRewrite", "NormalizePersonalizedRewrite"})
          => pc_log[i + 1].out = pc_log[i].out

(***************************************************************************)
(* Editing security gate                                                   *)
(***************************************************************************)
EsDone == es_pc \in {"handler", "answered"}

\* The origin-allowed predicate: an empty allow-list allows everything,
\* otherwise exact membership or '*' membership.
OriginAllowed(origin, allowList) ==
    \/ allowList = <<>>
    \/ \E i \in 1..Len(allowList) : allowList[i] = origin
    \/ \E i \in 1..Len(allowList) : allowList[i] = "*"

PreflightHeaders ==
    {"Access-Control-Allow-Origin", "Access-Control-Allow-Credentials",
     "Access-Control-Allow-Methods", "Access-Control-Allow-Headers",
     "Access-Control-Max-Age"}

\* C17: for a non-OPTIONS request with secret validation enabled, the
\* protected handler is invoked only if the secret parameter is present and
\* equal to the configured secret; a missing secret is answered 401 'editing
\* secret is required' and a different one 401 'invalid editing secret', both
\* without invoking the handler.
C17_SecretGate ==
    (EsDone /\ es_req.method # "OPTIONS" /\ ~es_config.skip) =>
        /\ es_pc = "handler" =>
              es_req.secret # "" /\ es_req.secret = es_config.secret
        /\ es_req.secret = "" =>
              /\ es_pc = "answered"
              /\ es_resp.status = 401
              /\ es_resp.body = "Unauthorized: editing secret is required"
        /\ (es_req.secret # "" /\ es_req.secret # es_config.secret) =>
              /\ es_pc = "answered"
              /\ es_resp.status = 401
              /\ es_resp.body = "Unauthorized: invalid editing secret"

\* A request with a wrong secret was turned away.
C17_Witness ==
    /\ es_pc = "answered"
    /\ es_req.method = "POST"
    /\ ~es_config.skip
    /\ es_config.secret = "s3cret"
    /\ es_req.secret = "wrong"
    /\ es_resp.status = 401

\* C18: an OPTIONS request whose Origin satisfies the origin-allowed predicate
\* is answered 204 with Access-Control-Allow-Origin equal to the request
\* origin and the credentials, methods, headers and max-age headers; any
\* other is answered 403 with none of them; the handler is never invoked.
C18_Preflight ==
    (EsDone /\ es_req.method = "OPTIONS") =>
        /\ es_pc = "answered"
        /\ IF OriginAllowed(es_req.origin, es_config.allowedOrigins)
           THEN /\ es_resp.status = 204
                /\ es_resp.headers["Access-Control-Allow-Origin"] = <<es_req.origin>>
                /\ \A h \in PreflightHeaders : es_resp.headers[h] # Unset
           ELSE /\ es_resp.status = 403
                /\ \A h \in PreflightHeaders : es_resp.headers[h] = Unset

\* C18, amended: the 204 answer needs a request that carries an Origin
\* header; a preflight without one is answered 403 under every allow-list.
C18_PreflightWithOrigin ==
    (EsDone /\ es_req.method = "OPTIONS") =>
        /\ es_pc = "answered"
        /\ es_resp.body = ""
        /\ IF es_req.origin # "" /\ OriginAllowed(es_req.origin, es_config.allowedOrigins)
           THEN /\ es_resp.status = 204
                /\ es_resp.headers["Access-Control-Allow-Origin"] = <<es_req.origin>>
                /\ \A h \in PreflightHeaders : es_resp.headers[h] # Unset
           ELSE /\ es_resp.status = 403
                /\ \A h \in PreflightHeaders : es_resp.headers[h] = Unset

\* A preflight without Origin was refused although the allow-list is empty,
\* and the secret it carried played no part.
C18_Witness ==
    /\ es_pc = "answered"
    /\ es_req.method = "OPTIONS"
    /\ es_req.origin = ""
    /\ es_config.allowedOrigins = <<>>
    /\ es_req.secret = "wrong"
    /\ es_resp.status = 403

\* The frame-ancestors value the allow-list calls for.
FrameAncestors(allowList) ==
    IF allowList = <<>> \/ \E i \in 1..Len(allowList) : allowList[i] = "*"
    THEN <<"frame-ancestors ", "*">>
    ELSE <<"frame-ancestors ">> \o Join(allowList, " ")

\* C19: every response of the gate carries Content-Security-Policy with
\* 'frame-ancestors *' for an empty or wildcard allow-list and
\* 'frame-ancestors ' plus the space-joined origins otherwise, whatever the
\* outcome of secret validation and of the CORS origin test.
C19_CspOnEveryResponse ==
    EsDone => es_resp.headers["Content-Security-Policy"] = FrameAncestors(es_config.allowedOrigins)

\* C19, amended: the header is set, with that value, on every request the gate
\* lets through to the handler, whether or not its origin is allowed for CORS;
\* the 401 answers and the preflight answers carry no such header.
C19_CspOnPassedRequests ==
    /\ es_pc = "handler" =>
          es_resp.headers["Content-Security-Policy"] = FrameAncestors(es_config.allowedOrigins)
    /\ es_pc = "answered" => es_resp.headers["Content-Security-Policy"] = Unset

\* A request from an origin outside the list went through with both listed
\* origins in its policy.
C19_Witness ==
    /\ es_pc = "handler"
    /\ es_config.allowedOrigins = <<"https://a.com", "https://c.com">>
    /\ es_req.origin = "https://b.com"
    /\ es_resp.headers["Access-Control-Allow-Origin"] = Unset
    /\ es_resp.headers["Content-Security-Policy"] =
           <<"frame-ancestors ", "https://a.com", " ", "https://c.com">>

\* C20: on a request that passes the gate, Access-Control-Allow-Origin is set
\* if and only if the request has an Origin that satisfies the origin-allowed
\* predicate, and its value is the request's origin, never '*'; a request with
\* a good secret whose origin is not allowed still reaches the handler.
C20_AllowOriginEchoed ==
    /\ es_pc = "handler" =>
          /\ es_resp.headers["Access-Control-Allow-Origin"] # Unset <=>
                (es_req.origin # "" /\
                 OriginAllowed(es_req.origin, es_config.allowedOrigins))
          /\ es_resp.headers["Access-Control-Allow-Origin"] # Unset =>
                es_resp.headers["Access-Control-Allow-Origin"] = <<es_req.origin>>
          /\ es_resp.headers["Access-Control-Allow-Origin"] # <<"*">>
    /\ (/\ EsDone
        /\ es_req.method # "OPTIONS"
        /\ es_config.skip \/ (es_req.secret # "" /\ es_req.secret = es_config.secret))
       => es_pc = "handler"

\* Under a wildcard allow-list the header names the caller's origin.
C20_Witness ==
    /\ es_pc = "handler"
    /\ SlicesContains(es_config.allowedOrigins, "*")
    /\ ~SlicesContains(es_config.allowedOrigins, "https://b.com")
    /\ es_req.origin = "https://b.com"
    /\ es_resp.headers["Access-Control-Allow-Origin"] = <<"https://b.com">>

(***************************************************************************)
(* Claims about the site resolver                                          *)
(***************************************************************************)
\* The host name the request carries, port included.
RawHost ==
    IF rq_headers["X-Forwarded-Host"] # Empty THEN rq_headers["X-Forwarded-Host"]
    ELSE rq_headers["Host"]

\* The host-name tier of the multisite middleware decided the site: there is
\* no site query parameter and no usable site cookie.
HostTierDecides ==
    /\ MultisiteRan
    /\ rq_query["site"] = Empty
    /\ ~(ms_config.useCookie /\ rq_cookies[SiteCookieName].present
            /\ rq_cookies[SiteCookieName].value # Empty)

\* The site the claim names for host h: the first exact match, else the first
\* '*.suffix' match, else the default site.
ClaimedHostSite(sites, dflt, h) ==
    LET colon == {i \in 2..Len(h) : h[i] = ":"}
        bare == IF colon = {} THEN h
                ELSE SubSeq(h, 1, (CHOOSE i \in colon : \A j \in colon : i <= j) - 1)
        host == ToLower(bare)
        IsExact(i) == ToLower(sites[i].hostName) = host
        IsWild(i) ==
            LET pat == ToLower(sites[i].hostName) IN
            /\ Len(pat) >= 2 /\ SubSeq(pat, 1, 2) = <<"*", ".">>
            /\ LET suffix == SubSeq(pat, 3, Len(pat)) IN
                 \/ host = suffix
                 \/ /\ Len(host) > Len(suffix)
                    /\ SubSeq(host, Len(host) - Len(suffix), Len(host)) = <<".">> \o suffix
        First(Is(_)) == CHOOSE i \in 1..Len(sites) : Is(i) /\ \A j \in 1..(i - 1) : ~Is(j) IN
    IF \E i \in 1..Len(sites) : IsExact(i) THEN sites[First(IsExact)]
    ELSE IF \E i \in 1..Len(sites) : IsWild(i) THEN sites[First(IsWild)]
    ELSE dflt

C28_DisabledPassThrough ==
    [][(Head(cx_chain) = "multisite" /\ ~ms_config.enabled)
          => /\ cx_chain' = Tail(cx_chain)
             /\ cx_path' = cx_path
             /\ cx_bag' = cx_bag
             /\ cx_setCookies' = cx_setCookies]_vars

\* A disabled middleware has passed on a request that carries a site query
\* parameter, a site cookie and a host name of a configured site.
C28_Witness ==
    /\ ~ms_config.enabled
    /\ cx_chain = <<"terminal">>
    /\ rq_query["site"] = <<"q">>
    /\ rq_cookies[SiteCookieName] = CookieOf(<<"k">>)
    /\ ms_config.sites = SitesMixed
    /\ RawHost = <<"a", ".", "c">>
    /\ cx_bag = [k \in BagKeys |-> Null]

(***************************************************************************)
(* Claims about the locale cookie                                          *)
(***************************************************************************)
\* The number of the tier the locale was resolved from: 1 path segment,
\* 2 query parameter, 3 cookie, 4 Accept-Language header, 5 default.
ResolvedTier ==
    LET tiers == LocaleTiers(lc_config.useAcceptLanguage) IN
    CHOOSE i \in 1..Len(tiers) : tiers[i].yields /\ \A j \in 1..(i - 1) : ~tiers[j].yields

\* C25: the locale middleware writes the locale cookie, carrying the
\* resolved locale, when the locale comes from the path segment, the query
\* parameter or the Accept-Language header, and writes no cookie when it
\* comes from the locale cookie of the request.
C25_CookieWrittenUnlessFromCookie ==
    LocaleRan =>
        /\ ResolvedTier \in {1, 2, 4} =>
               /\ Len(cx_setCookies) = 1
               /\ cx_setCookies[1].name = LocaleCookieName
               /\ cx_setCookies[1].value = cx_bag[LocaleKey]
        /\ ResolvedTier = 3 => cx_setCookies = <<>>

\* A request whose locale cookie decides, with a supported Accept-Language
\* header behind it: the locale is the cookie's and nothing is written.
C25_Witness ==
    /\ LocaleRan
    /\ ResolvedTier = 3
    /\ lc_config.useAcceptLanguage
    /\ rq_cookies[LocaleCookieName] = CookieOf(<<"i", "t">>)
    /\ rq_headers["Accept-Language"] = <<"p", "t">>
    /\ cx_bag[LocaleKey] = <<"i", "t">>
    /\ cx_setCookies = <<>>

(***************************************************************************)
(* Claims about the error Request returns                                  *)
(***************************************************************************)
\* C26: when Request gives up after at least one attempt, the error it
\* returns wraps the error of the last attempt and its count annotation
\* states the attempts made: n retries stand for n + 1 attempts.
C26_ErrorCountsAttempts ==
    (gq_pc = "done" /\ gq_err.type = "failedAfter") =>
        /\ gq_err.cause = gq_lastErr
        /\ Failed(Last(gq_outcomes))
        /\ gq_err.retries + 1 = Len(gq_outcomes)

(***************************************************************************)
(* Claims about the API-key header                                         *)
(***************************************************************************)
\* The endpoint URL contains 'sitecoreContextId='.
EdgeEndpoint ==
    \E i, j \in 1..Len(gq_endpoint) :
        SubSeq(gq_endpoint, i, j) = <<"s", "i", "t", "e", "c", "o", "r", "e", "C", "o", "n", "t", "e", "x", "t", "I", "d", "=">>

\* c.config.Headers names the sc_apikey header itself.
CustomApiKey == \E i \in 1..Len(gq_headers) : gq_headers[i].name = "sc_apikey"

\* C29 as claimed: a request carries sc_apikey only when the endpoint is not
\* an edge endpoint, and for a non-edge endpoint with a configured key every
\* attempt carries that key.
C29_ApiKeyOffEdge ==
    \A n \in 1..Len(gq_sent) :
        /\ gq_sent[n]["sc_apikey"] # "<unset>" => ~EdgeEndpoint
        /\ (~EdgeEndpoint /\ gq_apiKey # "") => gq_sent[n]["sc_apikey"] = gq_apiKey

\* C29 (amended): the same for every client whose custom headers do not
\* name sc_apikey; a custom sc_apikey header is sent as configured on every
\* attempt, whatever the endpoint.
C29_ApiKeyOffEdgeUnlessCustom ==
    \A n \in 1..Len(gq_sent) :
        IF CustomApiKey
        THEN \E i \in 1..Len(gq_headers) :
                 /\ gq_headers[i].name = "sc_apikey"
                 /\ gq_sent[n]["sc_apikey"] = gq_headers[i].value
        ELSE /\ gq_sent[n]["sc_apikey"] # "<unset>" => ~EdgeEndpoint
             /\ (~EdgeEndpoint /\ gq_apiKey # "") => gq_sent[n]["sc_apikey"] = gq_apiKey

\* A client with a key and an edge endpoint has made an attempt and a retry,
\* both without the header.
C29_Witness ==
    /\ EdgeEndpoint
    /\ gq_apiKey = "k"
    /\ ~CustomApiKey
    /\ Len(gq_sent) = 2
    /\ \A n \in 1..2 : gq_sent[n]["sc_apikey"] = "<unset>"

C30_HealthcheckExactPath ==
    [][Head(cx_chain) = "healthcheck"
          => IF rq_path = hc_config.path
             THEN /\ cx_resp' = [status |-> 200, body |-> <<"json", hc_config.response>>]
                  /\ cx_chain' = <<>>
             ELSE /\ cx_resp' = cx_resp
                  /\ cx_chain' = Tail(cx_chain)]_vars

\* The healthcheck path was asked for: the configured body went out and no
\* handler behind the gate has run.
C30_Witness ==
    /\ rq_path = hc_config.path
    /\ hc_config.response = "healthy"
    /\ cx_resp = [status |-> 200, body |-> <<"json", "healthy">>]
    /\ cx_chain = <<>>
    /\ ca_fetch = <<>>
    /\ cx_bag = [k \in BagKeys |-> Null]

\* The catch-all handler has answered the request.
CatchAllRan == ca_fetch # <<>>

\* C23: GetPage returns the NotFoundError exactly when the layout fetch
\* succeeds without a route and a wrapped error of another type when the
\* fetch fails; the catch-all handler answers 404 exactly for the
\* NotFoundError, 500 with the fixed generic text for any other error, and
\* 200 with the page when there is none.
C23_NotFoundIsTyped ==
    CatchAllRan =>
        /\ ca_err.type = "NotFoundError" <=> ca_layout = "noRoute"
        /\ ca_layout = "error" => ca_err.type = "wrapped"
        /\ ca_layout = "route" => ca_err = NoErr
        /\ cx_resp.status = 404 <=> ca_err.type = "NotFoundError"
        /\ ca_err.type = "wrapped" =>
               cx_resp = [status |-> 500, body |-> <<"text", "Internal server error">>]
        /\ ca_err = NoErr => cx_resp = [status |-> 200, body |-> <<"json", "page">>]

\* A layout without a route: the typed error and the 404.
C23_Witness ==
    /\ CatchAllRan
    /\ ca_layout = "noRoute"
    /\ ca_err.type = "NotFoundError"
    /\ cx_resp.status = 404

\* C22: /fr/products?site=acme through multisite, locale, redirects and the
\* catch-all handler, with fr supported and no rule matching: locale fr, site
\* acme, path /_site_acme/fr/products downstream of the multisite middleware,
\* and a content fetch for (site acme, locale fr, path /products).
C22_EndToEnd ==
    (/\ CatchAllRan
     /\ rq_path = <<"/", "f", "r", "/", "p", "r", "o", "d", "u", "c", "t", "s">>
     /\ rq_query["site"] = <<"a", "c", "m", "e">>
     /\ ms_config.enabled
     /\ isSupported(lc_config, <<"f", "r">>)
     /\ ~rd_match.found)
    => /\ cx_bag[LocaleKey] = <<"f", "r">>
       /\ cx_bag[SiteKey] = <<"a", "c", "m", "e">>
       /\ cx_path = <<"/", "_", "s", "i", "t", "e", "_", "a", "c", "m", "e", "/", "f", "r", "/", "p", "r", "o", "d", "u", "c", "t", "s">>
       /\ ca_fetch = <<[path |-> <<"/", "p", "r", "o", "d", "u", "c", "t", "s">>, site |-> <<"a", "c", "m", "e">>,
                        locale |-> <<"f", "r">>]>>

(***************************************************************************)
(* Claims about concurrent first requests to the redirects middleware      *)
(***************************************************************************)
\* Every concurrent request has been answered.
RaceOver == rc_req # <<>> /\ \A i \in 1..Len(rc_req) : rc_pc[i] = "done"

\* C24: whatever the interleaving of the check, fetch and store steps of
\* concurrent first requests, every list stored equals every other list
\* stored, the list cached in the end is that list in full, and every
\* request that consults the rules is given that same list, as it is when
\* the requests are handled one after another.
C24_BenignRace ==
    /\ \A i, j \in 1..Len(rc_req) :
           (rc_got[i].ok /\ rc_got[j].ok) => rc_got[i].list = rc_got[j].list
    /\ (RaceOver /\ rc_mem.ptr # 0) =>
           /\ rc_mem.len = Len(rc_got[rc_mem.ptr].list)
           /\ \A i \in 1..Len(rc_req) :
                 /\ rc_out[i].kind # "fault"
                 /\ rc_out[i].kind \in {"next", "redirect"} =>
                        rc_out[i].read = rc_got[rc_mem.ptr].list

(***************************************************************************)
(* Client facade: the site recovered from the path                         *)
(***************************************************************************)
DefaultSiteName == <<"d", "e", "f", "a", "u", "l", "t">>

\* C31: GetSiteNameFromPath(p) returns the name carried by p's site marker
\* and the default site only when p has no marker segment; GetPage without an
\* explicit site fetches for the site encoded in the path, with the marker
\* removed from the path it fetches.
C31_SiteRecoveredFromPath ==
    \A i \in 1..Len(pc_log) :
        LET c == pc_log[i]
            marked == ~NoSegmentWith(c.in, SITE_PREFIX) IN
        /\ c.op = "GetSiteNameFromPath" =>
              c.id = IF marked THEN DecodeMarker(c.in, SITE_PREFIX, c.arg).id ELSE c.arg
        /\ c.op = "GetPage" =>
              /\ c.id = IF marked THEN DecodeMarker(c.in, SITE_PREFIX, DefaultSiteName).id
                        ELSE DefaultSiteName
              /\ NoSegmentWith(c.out, SITE_PREFIX)

(***************************************************************************)
(* Redirect rules and the active site                                      *)
(***************************************************************************)
\* The site loadRedirects would fetch for on the current request.
ActiveSite == IF cx_bag[SiteKey] # Null THEN cx_bag[SiteKey] ELSE <<"c">>

\* C32: the rule list a request is matched against is the list that was
\* fetched for that request's active site; a request for one site is never
\* matched against the rules loaded for another.
C32_RulesOfActiveSite ==
    rd_match.looked =>
        /\ rd_fetches # <<>>
        /\ Last(rd_fetches) = ActiveSite

(***************************************************************************)
(* Locale: the Accept-Language tier                                        *)
(***************************************************************************)
\* What one header entry offers: its tag without the weight when that is
\* supported, else its primary subtag when the tag has one and it is
\* supported, else nothing.
EntryOffer(entry) ==
    LET tag == TrimSpace(Split(entry, ";")[1])
        primary == Split(tag, "-")[1] IN
    IF isSupported(lc_config, tag) THEN [ok |-> TRUE, value |-> tag]
    ELSE IF Contains(tag, <<"-">>) /\ primary # Empty /\ isSupported(lc_config, primary)
    THEN [ok |-> TRUE, value |-> primary]
    ELSE [ok |-> FALSE, value |-> Empty]

\* The offer of the first header entry that offers anything.
FirstOffer ==
    LET entries == Split(rq_headers["Accept-Language"], ",")
        hits == {i \in 1..Len(entries) : EntryOffer(entries[i]).ok} IN
    IF hits = {} THEN Empty
    ELSE EntryOffer(entries[CHOOSE i \in hits : \A j \in hits : i <= j]).value

\* The request reaches the Accept-Language tier with a header to parse.
HeaderTierReached ==
    /\ LocaleRan
    /\ \A t \in 1..3 : ~LocaleTiers(TRUE)[t].yields
    /\ lc_config.useAcceptLanguage
    /\ rq_headers["Accept-Language"] # Empty

\* C33: the Accept-Language tier gives the tag, or the primary subtag, of the
\* first header entry that is supported exactly or through its primary
\* subtag, in header order and whatever the ';q=' weights say; when no entry
\* is supported the tier yields nothing and the default language is used.
C33_FirstListedWins ==
    HeaderTierReached =>
        cx_bag[LocaleKey] = IF FirstOffer # Empty THEN FirstOffer
                            ELSE lc_config.defaultLanguage

\* A header whose first entry is supported with the lower weight: it wins
\* over the later entry with the higher weight.
C33_Witness ==
    /\ HeaderTierReached
    /\ lc_config.supported = SupportedAll
    /\ rq_headers["Accept-Language"] = <<"d", "e", ";", "q", "=", "0", ".", "1", ",", "p", "t", ";", "q", "=", "0", ".", "9">>
    /\ cx_bag[LocaleKey] = <<"d", "e">>

(***************************************************************************)
(* Backoff of Request                                                      *)
(***************************************************************************)
\* The bits of d * 2^k as a natural number, with no word to overflow.
ExactProduct(d, k) == {b + k : b \in d}

\* x < y for two int64 values given by their bits.
DurationLess(x, y) ==
    LET neg(z) == (DurationBits - 1) \in z
        diff == (x \ y) \cup (y \ x) IN
    IF neg(x) # neg(y) THEN neg(x)
    ELSE /\ diff # {}
         /\ (CHOOSE b \in diff : \A c \in diff : c <= b) \in y

\* C34: Request does not wait before the first attempt; before its r-th
\* retry it waits RetryDelay * 2^(r-1); and the waits of one call are
\* strictly increasing when RetryDelay > 0.
C34_ExponentialBackoff ==
    /\ Len(gq_waits) <= Len(gq_ctxAtCall)
    /\ gq_pc \in {"sleep", "call", "inflight"} => Len(gq_waits) = gq_attempt
    /\ \A r \in 1..Len(gq_waits) :
          /\ gq_waits[r] = ExactProduct(gq_retryDelay, r - 1)
          /\ (DurationBits - 1) \notin gq_waits[r]
    /\ gq_retryDelay # {} =>
          \A r \in 1..(Len(gq_waits) - 1) : DurationLess(gq_waits[r], gq_waits[r + 1])

(***************************************************************************)
(* Multisite: the site cookie and the unvalidated site name                *)
(***************************************************************************)
\* The enabled multisite middleware has handled the request.
MultisiteHandled == ms_config.enabled /\ cx_chain = <<"terminal">>

\* The site cookie of the request decided the site.
SiteFromCookie ==
    /\ rq_query["site"] = Empty
    /\ ms_config.useCookie
    /\ rq_cookies[SiteCookieName].present
    /\ rq_cookies[SiteCookieName].value # Empty

\* C35: with multisite enabled every handled request writes exactly the site
\* cookie, with the site name of the context bag as its value, Path=/,
\* Secure, HttpOnly and SameSite=None, also when the site was resolved from
\* that cookie.
C35_SiteCookieAlwaysSet ==
    MultisiteHandled =>
        /\ Len(cx_setCookies) = 1
        /\ cx_setCookies[1].name = SiteCookieName
        /\ cx_setCookies[1].value = cx_bag[SiteKey]
        /\ cx_setCookies[1].path = "/"
        /\ cx_setCookies[1].secure
        /\ cx_setCookies[1].httpOnly
        /\ cx_setCookies[1].sameSite = "None"

\* A request whose site comes from its site cookie: the cookie is written
\* again with the same value.
C35_Witness ==
    /\ MultisiteHandled
    /\ SiteFromCookie
    /\ rq_cookies[SiteCookieName] = CookieOf(<<"k">>)
    /\ cx_bag[SiteKey] = <<"k">>
    /\ Len(cx_setCookies) = 1
    /\ cx_setCookies[1].value = <<"k">>

\* C38: a non-empty site query parameter, or with cookie resolution on and no
\* such parameter a non-empty site cookie, is taken verbatim as the site name
\* of the context, of the site cookie and of the rewritten path stored in the
\* context, whether or not a configured site or the default site has that
\* name.
C38_SiteNotValidated ==
    MultisiteHandled =>
        LET taken == IF rq_query["site"] # Empty THEN rq_query["site"]
                     ELSE IF SiteFromCookie THEN rq_cookies[SiteCookieName].value
                     ELSE Empty IN
        taken # Empty =>
            /\ cx_bag[SiteKey] = taken
            /\ \E i \in 1..Len(cx_setCookies) :
                  /\ cx_setCookies[i].name = SiteCookieName
                  /\ cx_setCookies[i].value = taken
            /\ cx_bag[RewritePathKey] =
                  Slash \o SITE_PREFIX \o taken \o EnsureLeadingSlash(rq_path)

\* A site parameter that names no configured site and not the default site,
\* on a request whose host name belongs to a configured site.
C38_Witness ==
    /\ MultisiteHandled
    /\ ms_config.sites = SitesMixed
    /\ rq_query["site"] = <<"q">>
    /\ GetByName(ms_config.sites, ms_config.defaultSite, <<"q">>).err
    /\ RawHost = <<"a", ".", "c">>
    /\ cx_bag[SiteKey] = <<"q">>
    /\ cx_setCookies[1].value = <<"q">>
    /\ cx_bag[RewritePathKey] = <<"/", "_", "s", "i", "t", "e", "_", "q", "/", "p">>

(***************************************************************************)
(* Context state across the Echo adapters                                  *)
(***************************************************************************)
\* The operations before entry j of the log that wrote what entry j reads.
WritesBefore(j) ==
    {i \in 1..(j - 1) :
        /\ ec_log[i].op = (IF ec_log[j].op = "Get" THEN "Set" ELSE "SetPath")
        /\ ec_log[i].key = ec_log[j].key}

\* C39: what a wrapped middleware or handler reads with Get(k), or with
\* Path, is what a middleware wrapped before it last stored with Set(k, v),
\* or wrote with SetPath, on the same request; and no value or path read
\* comes from another request.
C39_StateCrossesAdapters ==
    \A j \in 1..Len(ec_log) :
        ec_log[j].op \in {"Get", "Path"} =>
            /\ WritesBefore(j) # {} =>
                  LET i == CHOOSE w \in WritesBefore(j) : \A u \in WritesBefore(j) : u <= w IN
                  ec_log[i].who < ec_log[j].who => ec_log[j].val = ec_log[i].val
            /\ ec_log[j].val.req \in {0, ec_reqs}
            /\ ec_log[j].op = "Path" => ec_log[j].val.req = ec_reqs

\* On the second request A stored a value and wrote a path, and B, in a
\* wrapper of its own, read both.
C39_Witness ==
    /\ ec_reqs = 2
    /\ Len(ec_values) >= 2
    /\ \E i, j \in 1..Len(ec_log) :
          /\ i < j
          /\ ec_log[i].who = 1 /\ ec_log[i].op = "Set"
          /\ ec_log[j].who = 2 /\ ec_log[j].op = "Get"
          /\ ec_log[j].key = ec_log[i].key
          /\ ec_log[j].val = ec_log[i].val
          /\ ec_log[j].val.req = 2

(***************************************************************************)
(* Path codec: the two ways of removing a marker                           *)
(***************************************************************************)
\* C36: for every path p, NormalizeSiteRewrite(p) is the NormalizedPath of
\* GetSiteRewriteData(p, d), and NormalizePersonalizedRewrite(p) is the
\* NormalizedPath of GetPersonalizedRewriteData(p), also for paths with
\* several marker segments, with the prefix inside a segment or with
\* repeated slashes.
C36_StrippersAgree ==
    \A i \in 1..Len(pc_log) :
        LET c == pc_log[i] IN
        /\ c.op = "NormalizeSiteRewrite" =>
              c.out = GetSiteRewriteData(c.in, <<"d">>).path
        /\ c.op = "GetSiteRewriteData" => c.out = NormalizeSiteRewrite(c.in)
        /\ c.op = "NormalizePersonalizedRewrite" =>
              c.out = GetPersonalizedRewriteData(c.in).path
        /\ c.op = "GetPersonalizedRewriteData" =>
              c.out = NormalizePersonalizedRewrite(c.in)

(***************************************************************************)
(* Locale: the two query parameters                                        *)
(***************************************************************************)
\* The path tier gave no supported locale, so the query tier is consulted.
QueryTierReached == LocaleRan /\ ~LocaleTiers(TRUE)[1].yields

\* C37: in the query tier the `locale` parameter is consulted only when
\* sc_lang is absent or empty: a supported sc_lang decides, a `locale`
\* parameter decides only next to an empty sc_lang, and a non-empty
\* unsupported sc_lang sends the request to the cookie tier and the tiers
\* after it, even when `locale` holds a supported language.
C37_LocaleParamOnlyWithoutScLang ==
    QueryTierReached =>
        LET scLang == rq_query["sc_lang"]
            localeParam == rq_query["locale"]
            later == SubSeq(LocaleTiers(lc_config.useAcceptLanguage), 3, 5) IN
        IF scLang # Empty
        THEN cx_bag[LocaleKey] = IF isSupported(lc_config, scLang) THEN scLang
                                 ELSE FirstYield(later)
        ELSE cx_bag[LocaleKey] =
                 IF localeParam # Empty /\ isSupported(lc_config, localeParam)
                 THEN localeParam ELSE FirstYield(later)

\* sc_lang=zz is not supported and locale=es is: the locale is the cookie's.
C37_Witness ==
    /\ QueryTierReached
    /\ lc_config.supported = SupportedAll
    /\ rq_query["sc_lang"] = <<"z", "z">>
    /\ rq_query["locale"] = <<"e", "s">>
    /\ rq_cookies[LocaleCookieName] = CookieOf(<<"i", "t">>)
    /\ cx_bag[LocaleKey] = <<"i", "t">>

====
